---- MODULE Spec2Model ----
(***************************************************************************)
(* Ski conditions PWA: the offline cache manager (sw.js) and the           *)
(* date/resort data loader (resort.js), modelled as state machines.        *)
(*                                                                         *)
(* The specifications that share the module:                               *)
(*   SpecSW      the service worker's fetch handling and its caches        *)
(*   SpecUpdate  the worker's cache-first handling, refreshes observed     *)
(*   SpecLife    the service worker's install and activate steps           *)
(*   SpecLoader  the page's loadIndex / loadDate / navigation state        *)
(*   SpecOverlap the same page with loads started while others are pending *)
(*   SpecWidgets the overview's groomed-highlights and lift widgets        *)
(*   SpecTouch   the page under the pull-to-refresh gesture (pwa.js)       *)
(*   SpecBrief   the page and its morning brief                            *)
(*   SpecReload  the page against a server whose answers are fixed         *)
(*   SpecFair    SpecLoader where every pending fetch eventually settles   *)
(*   SpecPull    the pull-to-refresh gesture with failing terrain fetches  *)
(* Each leaves the other components' variables at their rest value.        *)
(***************************************************************************)
EXTENDS Integers, Sequences, FiniteSets, Bags

(***************************************************************************)
(* Bounds of the model                                                     *)
(***************************************************************************)
\* fetch events (with their background refresh) the worker handles at once
MaxReq == 2
\* distinct requests the controlled pages issue in one behaviour
MaxSite == 1
\* files the index document lists for the resort
MaxFiles == 2
\* calendar days the documents are about: 1 .. MaxDay
MaxDay == 3
\* loadDate calls in flight at once
MaxLoads == 2
\* the longest trail list of a terrain document
MaxTrails == 5
\* the longest lift list of a lift document
MaxLifts == 4
\* the most manifest assets whose fetch fails during one install
MaxFailing == 2

(***************************************************************************)
(* Strings as sequences of characters, for endsWith / startsWith           *)
(***************************************************************************)
EndsWith(s, suffix) ==
    /\ Len(s) >= Len(suffix)
    /\ SubSeq(s, Len(s) - Len(suffix) + 1, Len(s)) = suffix

StartsWith(s, prefix) ==
    /\ Len(s) >= Len(prefix)
    /\ SubSeq(s, 1, Len(prefix)) = prefix

\* Array.prototype.includes over the comma-separated media types of a header
Includes(header, token) == \E i \in 1..Len(header) : header[i] = token

(***************************************************************************)
(* Service worker: constants and request classification                    *)
(***************************************************************************)
STATIC_CACHE == "ski-static-v2"
DATA_CACHE == "ski-data-v2"
CacheNames == {STATIC_CACHE, DATA_CACHE}

HTTP == <<"h", "t", "t", "p">>
HTTPS_PROTOCOL == <<"h", "t", "t", "p", "s", ":">>
HTTP_PROTOCOL == <<"h", "t", "t", "p", ":">>
EXT_PROTOCOL == <<"c", "h", "r", "o", "m", "e", "-", "e", "x", "t", ":">>

DOT_CSS == <<".", "c", "s", "s">>
DOT_JS == <<".", "j", "s">>
DOT_PNG == <<".", "p", "n", "g">>
DOT_ICO == <<".", "i", "c", "o">>
DOT_SVG == <<".", "s", "v", "g">>
DOT_WOFF2 == <<".", "w", "o", "f", "f", "2">>
DOT_JSON == <<".", "j", "s", "o", "n">>
DOT_NDJSON == <<".", "n", "d", "j", "s", "o", "n">>
DOT_HTML == <<".", "h", "t", "m", "l">>
SLASH == <<"/">>

\* mutation: the .js suffix is forgotten
isStaticAsset_NoJs(url) ==
    \/ EndsWith(url.pathname, DOT_CSS)
    \/ EndsWith(url.pathname, DOT_PNG)
    \/ EndsWith(url.pathname, DOT_ICO)
    \/ EndsWith(url.pathname, DOT_SVG)
    \/ EndsWith(url.pathname, DOT_WOFF2)

isStaticAsset(url) ==
    \/ EndsWith(url.pathname, DOT_CSS)
    \/ EndsWith(url.pathname, DOT_JS)
    \/ EndsWith(url.pathname, DOT_PNG)
    \/ EndsWith(url.pathname, DOT_ICO)
    \/ EndsWith(url.pathname, DOT_SVG)
    \/ EndsWith(url.pathname, DOT_WOFF2)

isDataRequest(url) ==
    \/ EndsWith(url.pathname, DOT_JSON)
    \/ EndsWith(url.pathname, DOT_NDJSON)

isHtmlPage(url) ==
    \/ EndsWith(url.pathname, DOT_HTML)
    \/ EndsWith(url.pathname, SLASH)

(***************************************************************************)
(* Requests the pages can issue                                            *)
(***************************************************************************)
NoHeader == <<>>
ACCEPT_HTML == <<"text/html", "application/xhtml+xml", "*/*">>
ACCEPT_ANY == <<"*/*">>
ACCEPT_JSON == <<"application/json">>

Path(name, ext) == <<"/">> \o <<name>> \o ext

Req(m, proto, o, p, a) ==
    [method |-> m, protocol |-> proto, origin |-> o, pathname |-> p, accept |-> a]

SELF_ORIGIN == "self"
OTHER_ORIGIN == "other"

Requests ==
    { Req("GET", HTTPS_PROTOCOL, SELF_ORIGIN, Path("s", DOT_CSS), ACCEPT_ANY),
      Req("GET", HTTPS_PROTOCOL, SELF_ORIGIN, Path("a", DOT_JS), ACCEPT_ANY),
      Req("GET", HTTPS_PROTOCOL, SELF_ORIGIN, Path("i", DOT_PNG), ACCEPT_ANY),
      Req("GET", HTTPS_PROTOCOL, SELF_ORIGIN, Path("f", DOT_ICO), ACCEPT_ANY),
      Req("GET", HTTPS_PROTOCOL, SELF_ORIGIN, Path("v", DOT_SVG), ACCEPT_ANY),
      Req("GET", HTTP_PROTOCOL, SELF_ORIGIN, Path("w", DOT_WOFF2), NoHeader),
      Req("GET", HTTPS_PROTOCOL, SELF_ORIGIN, Path("d", DOT_JSON), ACCEPT_JSON),
      Req("GET", HTTPS_PROTOCOL, SELF_ORIGIN, Path("d", DOT_JSON), ACCEPT_HTML),
      Req("GET", HTTPS_PROTOCOL, SELF_ORIGIN, Path("n", DOT_NDJSON), NoHeader),
      Req("GET", HTTPS_PROTOCOL, SELF_ORIGIN, Path("p", DOT_HTML), ACCEPT_HTML),
      Req("GET", HTTPS_PROTOCOL, SELF_ORIGIN, Path("p", DOT_HTML), ACCEPT_ANY),
      Req("GET", HTTPS_PROTOCOL, SELF_ORIGIN, SLASH, ACCEPT_HTML),
      Req("GET", HTTPS_PROTOCOL, SELF_ORIGIN, <<"/", "x">>, ACCEPT_HTML),
      Req("POST", HTTPS_PROTOCOL, SELF_ORIGIN, Path("d", DOT_JSON), ACCEPT_JSON),
      Req("GET", EXT_PROTOCOL, OTHER_ORIGIN, Path("a", DOT_JS), ACCEPT_ANY),
      Req("GET", HTTPS_PROTOCOL, OTHER_ORIGIN, Path("a", DOT_JS), ACCEPT_ANY) }

\* new URL(event.request.url); the Cache API keys its entries by it
Url(q) == [protocol |-> q.protocol, origin |-> q.origin, pathname |-> q.pathname]
Urls == { Url(q) : q \in Requests }

(***************************************************************************)
(* Responses                                                               *)
(***************************************************************************)
NetStatuses == {200, 299, 404}

Response(s, b) == [status |-> s, body |-> b]
NoResponse == Response(0, "none")
\* what the origin server answers with status s
NetResponse(s) == Response(s, "origin")
\* new Response(getOfflineHtml(), { headers: { 'Content-Type': 'text/html' } })
OfflineHtmlResponse == Response(200, "offlineHtml")
\* new Response('Offline', { status: 503 })
Offline503Response == Response(503, "Offline")

\* Response.ok
Ok(response) == response.status >= 200 /\ response.status <= 299

\* outcome of fetch(request): it rejects, or resolves with a response
Throw == Response(0, "throw")
FetchOutcomes(isOnline) ==
    IF isOnline THEN {Throw} \cup { NetResponse(s) : s \in NetStatuses }
    ELSE {Throw}

(***************************************************************************)
(* Service worker state                                                    *)
(***************************************************************************)
VARIABLES
    site,       \* the requests the controlled pages issue
    online,     \* whether the network is reachable
    cache,      \* cache storage: namespace -> URL -> stored response
    tasks,      \* bag of the handler and updateCache calls that are suspended
    reply,      \* the last answer the worker gave to a fetch event
    refreshNet  \* how the fetch of the last updateCache call settled, where observed

swVars == <<site, online, cache, tasks, reply, refreshNet>>

\* the state of the resort page (resort.js), which the worker never touches
VARIABLES
    indexDoc,           \* the index document the server holds
    zone,               \* the page's timezone relative to UTC
    today,              \* getTodayDate()
    availableDates,
    currentDateIndex,
    currentDate,
    terrainData,
    yesterdayData,
    weatherData,
    liftData,
    content,            \* what the #content element shows
    calls,              \* bag of the suspended loadIndex / loadDate calls
    populated,          \* loadIndex has assigned availableDates
    event               \* what the last step handled: a user operation with its
                        \* argument, or the settling of a fetch with its outcome

loaderVars == <<indexDoc, zone, today, availableDates, currentDateIndex, currentDate,
                terrainData, yesterdayData, weatherData, liftData, content, calls,
                populated, event>>

\* the overview widgets: the data handed to a widget and what it shows
VARIABLES
    widgetIn,
    widgetOut

widgetVars == <<widgetIn, widgetOut>>

\* the worker's life cycle (install, activate) and the cache storage it finds
VARIABLES
    worker,             \* the worker's state: parsed, installing, installed, ...
    skipWaitingFlag,    \* self.skipWaiting() has been called
    namespaces,         \* the names of the cache namespaces that exist
    precached,          \* the manifest assets stored in the static namespace
    assetFetch,         \* how the server answers each manifest asset
    jobs,               \* the promises of the life cycle that are pending
    claimed             \* clients.claim() has taken effect

lifeVars == <<worker, skipWaitingFlag, namespaces, precached, assetFetch, jobs, claimed>>

\* pull to refresh (pwa.js)
VARIABLES
    pullStartY,
    pullMoveY,
    isPulling,
    scrollY,            \* window.scrollY
    touch,              \* the finger on the screen: where it went down and where it is
    toast               \* the last notification shown

touchVars == <<pullStartY, pullMoveY, isPulling, scrollY, touch, toast>>

\* the morning brief
VARIABLES
    resort,             \* RESORT_KEY of the page
    hasBriefWidget,     \* the page has a #briefWidget element
    dailyBriefs,        \* window.debugSettings.dailyBriefs
    dismissed,          \* localStorage: brief-dismissed-<resort> -> date
    briefDisplay        \* style.display of #briefWidget

briefVars == <<resort, hasBriefWidget, dailyBriefs, dismissed, briefDisplay>>

\* what tells a repeated load from a first one
VARIABLES
    server,             \* how the server answers each URL, where that is fixed
    reload              \* the loader's data when the last loadDate was called

reloadVars == <<server, reload>>

\* the resorts whose pages share the browser's localStorage
Resorts == {"vail", "beavercreek"}

vars == <<swVars, loaderVars, widgetVars, lifeVars, touchVars, briefVars, reloadVars>>
\* what the worker's fetch handling, and what the loader, never touch
besideSW == <<loaderVars, widgetVars, lifeVars, touchVars, briefVars, reloadVars>>
besideLoader == <<swVars, widgetVars, lifeVars, reloadVars>>
\* what a step that calls loadDate never touches
besideLoad == <<swVars, widgetVars, lifeVars, server>>

NoRequest == Req("", <<>>, "", <<>>, <<>>)
\* an answer: the request, the strategy that handled it, where the response came
\* from, the response, and the outcome of the handler's own fetch (if it made one)
Reply(q, strategy, via, response, net) ==
    [req |-> q, strategy |-> strategy, via |-> via, response |-> response, net |-> net]
NoReply == Reply(NoRequest, "none", "init", NoResponse, NoResponse)
\* refreshNet where the outcome of updateCache's fetch is not recorded
Unobserved == Response(0, "unobserved")

\* a suspended call: where it waits, its request and cache, the fetches it made
Task(pc, q, name, n) == [pc |-> pc, request |-> q, cacheName |-> name, fetches |-> n]

Suspend(t) == tasks (+) SetToBag({t})
Resume(t, next) == (tasks (-) SetToBag({t})) (+) SetToBag({next})
Finish(t) == tasks (-) SetToBag({t})

\* cache.match(request)
Match(cch, name, q) == cch[name][Url(q)]
\* cache.put(request, response)
Put(cch, name, q, response) == [cch EXCEPT ![name][Url(q)] = response]

SWInit ==
    /\ site \in { w \in SUBSET Requests : Cardinality(w) >= 1 /\ Cardinality(w) <= MaxSite }
    /\ online = TRUE
    /\ cache = [name \in CacheNames |-> [u \in Urls |-> NoResponse]]
    /\ tasks = EmptyBag
    /\ reply = NoReply
    /\ refreshNet = Unobserved

(***************************************************************************)
(* fetch event listener                                                    *)
(***************************************************************************)
PassThrough == [strategy |-> "none", cacheName |-> "none"]

\* mutation: the method is not looked at
Dispatch_NoMethodCheck(q) ==
    IF ~StartsWith(Url(q).protocol, HTTP) THEN PassThrough
    ELSE IF isStaticAsset(Url(q))
        THEN [strategy |-> "cacheFirst", cacheName |-> STATIC_CACHE]
    ELSE IF isDataRequest(Url(q))
        THEN [strategy |-> "networkFirst", cacheName |-> DATA_CACHE]
    ELSE IF isHtmlPage(Url(q))
        THEN [strategy |-> "networkFirst", cacheName |-> STATIC_CACHE]
    ELSE PassThrough

Dispatch(q) ==
    IF q.method # "GET" THEN PassThrough
    ELSE IF ~StartsWith(Url(q).protocol, HTTP) THEN PassThrough
    ELSE IF isStaticAsset(Url(q))
        THEN [strategy |-> "cacheFirst", cacheName |-> STATIC_CACHE]
    ELSE IF isDataRequest(Url(q))
        THEN [strategy |-> "networkFirst", cacheName |-> DATA_CACHE]
    ELSE IF isHtmlPage(Url(q))
        THEN [strategy |-> "networkFirst", cacheName |-> STATIC_CACHE]
    ELSE PassThrough

\* a fetch event arrives; the listener either leaves it alone or hands it to a
\* strategy, which runs up to its first suspension (cache.match or fetch)
FetchEvent(q) ==
    /\ BagCardinality(tasks) < MaxReq
    /\ q \in site
    /\ LET d == Dispatch(q) IN
        IF d.strategy = "none"
        THEN /\ reply' = Reply(q, "none", "passthrough", NoResponse, NoResponse)
             /\ UNCHANGED tasks
        ELSE /\ tasks' = Suspend(IF d.strategy = "cacheFirst"
                                 THEN Task("cfMatch", q, d.cacheName, 0)
                                 ELSE Task("nfFetch", q, d.cacheName, 1))
             /\ UNCHANGED reply
    /\ UNCHANGED <<site, online, cache>>
    /\ UNCHANGED refreshNet
    /\ UNCHANGED besideSW

(***************************************************************************)
(* cacheFirst                                                              *)
(***************************************************************************)
\* mutation: the response is stored whatever its status
cacheFirstStore_NoOkCheck(cch, name, q, networkResponse) ==
    Put(cch, name, q, networkResponse)

cacheFirstStore(cch, name, q, networkResponse) ==
    IF Ok(networkResponse) THEN Put(cch, name, q, networkResponse) ELSE cch

\* mutation: a hit answers without starting updateCache
CacheFirstMatch_NoRefresh(t) ==
    /\ BagIn(t, tasks)
    /\ t.pc = "cfMatch"
    /\ LET cachedResponse == Match(cache, t.cacheName, t.request) IN
        IF cachedResponse # NoResponse
        THEN /\ tasks' = Finish(t)
             /\ reply' = Reply(t.request, "cacheFirst", "cache", cachedResponse, NoResponse)
        ELSE /\ tasks' = Resume(t, Task("cfFetch", t.request, t.cacheName, t.fetches + 1))
             /\ UNCHANGED reply
    /\ UNCHANGED <<site, online, cache>>
    /\ UNCHANGED refreshNet
    /\ UNCHANGED besideSW

\* cache.match resolves: a hit answers at once and starts updateCache, a miss
\* goes to the network
CacheFirstMatch(t) ==
    /\ BagIn(t, tasks)
    /\ t.pc = "cfMatch"
    /\ LET cachedResponse == Match(cache, t.cacheName, t.request) IN
        IF cachedResponse # NoResponse
        THEN /\ tasks' = Resume(t, Task("updFetch", t.request, t.cacheName, t.fetches + 1))
             /\ reply' = Reply(t.request, "cacheFirst", "cache", cachedResponse, NoResponse)
        ELSE /\ tasks' = Resume(t, Task("cfFetch", t.request, t.cacheName, t.fetches + 1))
             /\ UNCHANGED reply
    /\ UNCHANGED <<site, online, cache>>
    /\ UNCHANGED refreshNet
    /\ UNCHANGED besideSW

\* mutation: the fetched response is returned but never stored
CacheFirstFetch_NoStore(t, out) ==
    /\ BagIn(t, tasks)
    /\ t.pc = "cfFetch"
    /\ out \in FetchOutcomes(online)
    /\ reply' = IF out # Throw
                THEN Reply(t.request, "cacheFirst", "network", out, out)
                ELSE Reply(t.request, "cacheFirst", "synthetic", Offline503Response, out)
    /\ tasks' = Finish(t)
    /\ UNCHANGED <<site, online, cache>>
    /\ UNCHANGED refreshNet
    /\ UNCHANGED besideSW

\* the network fetch of a cache miss settles
CacheFirstFetch(t, out) ==
    /\ BagIn(t, tasks)
    /\ t.pc = "cfFetch"
    /\ out \in FetchOutcomes(online)
    /\ IF out # Throw
       THEN /\ cache' = cacheFirstStore(cache, t.cacheName, t.request, out)
            /\ reply' = Reply(t.request, "cacheFirst", "network", out, out)
       ELSE /\ reply' = Reply(t.request, "cacheFirst", "synthetic", Offline503Response, out)
            /\ UNCHANGED cache
    /\ tasks' = Finish(t)
    /\ UNCHANGED <<site, online>>
    /\ UNCHANGED refreshNet
    /\ UNCHANGED besideSW

(***************************************************************************)
(* updateCache                                                             *)
(***************************************************************************)
\* mutation: the refreshed response is stored whatever its status
updateCacheStore_NoOkCheck(cch, name, q, networkResponse) ==
    Put(cch, name, q, networkResponse)

updateCacheStore(cch, name, q, networkResponse) ==
    IF Ok(networkResponse) THEN Put(cch, name, q, networkResponse) ELSE cch

\* the background refresh fetch settles
UpdateCacheFetch(t, out) ==
    /\ BagIn(t, tasks)
    /\ t.pc = "updFetch"
    /\ out \in FetchOutcomes(online)
    /\ cache' = IF out # Throw
                THEN updateCacheStore(cache, t.cacheName, t.request, out)
                ELSE cache
    /\ tasks' = Finish(t)
    /\ refreshNet' = IF refreshNet = Unobserved THEN refreshNet ELSE out
    /\ UNCHANGED <<site, online, reply>>
    /\ UNCHANGED besideSW

(***************************************************************************)
(* networkFirst                                                            *)
(***************************************************************************)
\* mutation: the network response is stored whatever its status
networkFirstStore_NoOkCheck(cch, name, q, networkResponse) ==
    Put(cch, name, q, networkResponse)

networkFirstStore(cch, name, q, networkResponse) ==
    IF Ok(networkResponse) THEN Put(cch, name, q, networkResponse) ELSE cch

\* the network fetch settles: a response is answered (and stored when ok), a
\* rejection goes on to cache.match
NetworkFirstFetch(t, out) ==
    /\ BagIn(t, tasks)
    /\ t.pc = "nfFetch"
    /\ out \in FetchOutcomes(online)
    /\ IF out # Throw
       THEN /\ cache' = networkFirstStore(cache, t.cacheName, t.request, out)
            /\ reply' = Reply(t.request, "networkFirst", "network", out, out)
            /\ tasks' = Finish(t)
       ELSE /\ tasks' = Resume(t, Task("nfMatch", t.request, t.cacheName, t.fetches))
            /\ UNCHANGED <<cache, reply>>
    /\ UNCHANGED <<site, online>>
    /\ UNCHANGED refreshNet
    /\ UNCHANGED besideSW

\* mutation: no offline page, a cache miss always answers 503
networkFirstFallback_NoOfflinePage(cachedResponse, q) ==
    IF cachedResponse # NoResponse
    THEN [via |-> "cache", response |-> cachedResponse]
    ELSE [via |-> "synthetic", response |-> Offline503Response]

\* what the catch branch answers once cache.match has resolved
networkFirstFallback(cachedResponse, q) ==
    IF cachedResponse # NoResponse
    THEN [via |-> "cache", response |-> cachedResponse]
    ELSE IF q.accept # NoHeader /\ Includes(q.accept, "text/html")
    THEN [via |-> "synthetic", response |-> OfflineHtmlResponse]
    ELSE [via |-> "synthetic", response |-> Offline503Response]

NetworkFirstMatch(t) ==
    /\ BagIn(t, tasks)
    /\ t.pc = "nfMatch"
    /\ LET fb == networkFirstFallback(Match(cache, t.cacheName, t.request), t.request) IN
        reply' = Reply(t.request, "networkFirst", fb.via, fb.response, Throw)
    /\ tasks' = Finish(t)
    /\ UNCHANGED <<site, online, cache>>
    /\ UNCHANGED refreshNet
    /\ UNCHANGED besideSW

(***************************************************************************)
(* The network comes and goes                                              *)
(***************************************************************************)
GoOffline ==
    /\ online
    /\ online' = FALSE
    /\ UNCHANGED <<site, cache, tasks, reply>>
    /\ UNCHANGED refreshNet
    /\ UNCHANGED besideSW

GoOnline ==
    /\ ~online
    /\ online' = TRUE
    /\ UNCHANGED <<site, cache, tasks, reply>>
    /\ UNCHANGED refreshNet
    /\ UNCHANGED besideSW

SWNext ==
    \/ \E q \in Requests : FetchEvent(q)
    \/ \E t \in BagToSet(tasks) : CacheFirstMatch(t)
    \/ \E t \in BagToSet(tasks), out \in FetchOutcomes(TRUE) : CacheFirstFetch(t, out)
    \/ \E t \in BagToSet(tasks), out \in FetchOutcomes(TRUE) : UpdateCacheFetch(t, out)
    \/ \E t \in BagToSet(tasks), out \in FetchOutcomes(TRUE) : NetworkFirstFetch(t, out)
    \/ \E t \in BagToSet(tasks) : NetworkFirstMatch(t)
    \/ GoOffline
    \/ GoOnline


(***************************************************************************)
(* Loader (resort.js): dates, documents and fetch outcomes                 *)
(***************************************************************************)
Days == 1..MaxDay
\* JavaScript null and undefined where a date string is expected
NullDate == 0 - 10
UndefinedDate == 0 - 20

\* an entry of index.resorts[RESORT_KEY].files: "<date>.json"
File(d) == [stem |-> d, ext |-> ".json"]
\* f.replace('.json', '')
StripJson(f) == f.stem

RECURSIVE InsertAsc(_, _)
InsertAsc(x, sorted) ==
    IF sorted = <<>> THEN <<x>>
    ELSE IF x <= Head(sorted) THEN <<x>> \o sorted
    ELSE <<Head(sorted)>> \o InsertAsc(x, Tail(sorted))

\* Array.prototype.sort on ISO day strings: ascending, duplicates kept
RECURSIVE Sort(_)
Sort(a) == IF a = <<>> THEN <<>> ELSE InsertAsc(Head(a), Sort(Tail(a)))

\* Array.prototype.reverse
Reverse(a) == [i \in 1..Len(a) |-> a[Len(a) + 1 - i]]

\* files.map(f => f.replace('.json', ''))
MapStripJson(a) == [i \in 1..Len(a) |-> StripJson(a[i])]

\* availableDates.includes / indexOf, over 0-based positions (-1: absent)
ArrayIncludes(a, x) == \E i \in 1..Len(a) : a[i] = x
IndexOf(a, x) ==
    IF ArrayIncludes(a, x)
    THEN (CHOOSE i \in 1..Len(a) : a[i] = x /\ \A k \in 1..(i - 1) : a[k] # x) - 1
    ELSE 0 - 1
\* a[i] for a 0-based i, undefined outside the array
At(a, i) == IF i >= 0 /\ i < Len(a) THEN a[i + 1] ELSE UndefinedDate

\* the index documents the server can hold
IndexDoc(shape, files) == [shape |-> shape, files |-> files]
FileLists == UNION { [1..n -> { File(d) : d \in Days }] : n \in 0..MaxFiles }
IndexDocs ==
    { IndexDoc("noResorts", <<>>), IndexDoc("noEntry", <<>>), IndexDoc("noFiles", <<>>) }
        \cup { IndexDoc("files", fl) : fl \in FileLists }

\* index.resorts && index.resorts[RESORT_KEY] && index.resorts[RESORT_KEY].files
HasFiles(index) == index.shape = "files"

\* parsed JSON values held by the loader
Json(kind, d) == [kind |-> kind, date |-> d]
Null == Json("null", NullDate)
Terrain(d) == Json("terrain", d)
\* a parsable body that is not the document asked for (an error object)
OtherJson == Json("other", NullDate)

\* outcome of a fetch as the page sees it: it rejects, or resolves with a
\* status and a body that is the document asked for, some other JSON, or
\* not JSON at all
Outcome(status, body) == [status |-> status, body |-> body]
Rejected == Outcome(0, "rejected")
NoOutcome == Outcome(0, "none")
\* a 2xx answer carries the document or something unparsable (such as the
\* worker's offline page); any body can come with an error status
PageOutcomes ==
    { Rejected,
      Outcome(200, "doc"), Outcome(200, "garbage"),
      Outcome(404, "garbage"), Outcome(404, "other"), Outcome(404, "doc") }

\* response.ok
ResponseOk(out) == out.status >= 200 /\ out.status <= 299
\* response.json() resolves
Parses(out) == out.body \in {"doc", "other"}

\* new Date(date + 'T00:00:00') is local midnight; setDate(getDate() - 1);
\* toISOString().split('T')[0] is the UTC day of that instant: the day before
\* where local time is UTC or behind it, two days before where it is ahead
ActualYesterday(date, tz) == IF tz = "ahead" THEN date - 2 ELSE date - 1
Zones == {"utcOrBehind", "ahead"}

(***************************************************************************)
(* Loader state                                                            *)
(***************************************************************************)
\* weatherData: the parsed snapshot and its isHistorical tag
Weather(kind, d, isHistorical) == [kind |-> kind, date |-> d, isHistorical |-> isHistorical]
NoWeather == Weather("null", NullDate, FALSE)

\* what #content shows: the skeleton, an error message, or the overview
\* derived from the four data at the time of rendering
View(kind, msg, d, t, y, w, l) ==
    [kind |-> kind, msg |-> msg, date |-> d, terrain |-> t, yesterday |-> y,
     weather |-> w, lift |-> l]
Plain(kind, msg, d) == View(kind, msg, d, Null, Null, NoWeather, Null)
InitialView == Plain("initial", "", NullDate)
Skeleton == Plain("skeleton", "", NullDate)
\* showError(message)
ErrorView(msg, d) == Plain("error", msg, d)

\* a suspended call: the function, where it waits, its date argument, the
\* calendar yesterday it computed, the positions of loadWeatherData and
\* loadLiftData under Promise.all, and the caller awaiting it
Call(fn, pc, d, yday, w, l, parent) ==
    [fn |-> fn, pc |-> pc, date |-> d, yday |-> yday, w |-> w, l |-> l, parent |-> parent]
LoadIndexCall(pc) == Call("loadIndex", pc, NullDate, NullDate, "none", "none", "none")
\* loadIndex() awaited by refreshData(), and loadMorningBrief() at its fetch
RefreshIndexCall(pc) == Call("loadIndex", pc, NullDate, NullDate, "none", "none", "refresh")
BriefCall(parent) == Call("loadMorningBrief", "fetch", NullDate, NullDate, "none", "none", parent)

Event(op, arg, out) == [op |-> op, arg |-> arg, out |-> out]
NoEvent == Event("none", 0, NoOutcome)
UserEvent(op, arg) == Event(op, arg, NoOutcome)
Settled(what, out) == Event(what, 0, out)

LoaderInit ==
    /\ indexDoc \in IndexDocs
    /\ zone \in Zones
    /\ today = MaxDay
    /\ availableDates = <<>>
    /\ currentDateIndex = 0
    /\ yesterdayData = Null
    /\ currentDate = NullDate
    /\ terrainData = Null
    /\ weatherData = NoWeather
    /\ liftData = Null
    /\ content = InitialView
    /\ calls = EmptyBag
    /\ populated = FALSE
    /\ event = NoEvent

LoadsInFlight == BagCardinality(calls)

\* a server whose answer to a URL never changes: terrain/<d>.json and
\* snow/<d>.json by date, snow/latest.json, lifts/index.json
Server(terrain, hist, latest, lift) ==
    [terrain |-> terrain, hist |-> hist, latest |-> latest, lift |-> lift]
NoServer == Server(<<>>, <<>>, Rejected, Rejected)
Answer(f, d) == IF d \in DOMAIN f THEN f[d] ELSE Outcome(404, "garbage")

\* the five things a load writes
LoaderData == <<terrainData, yesterdayData, weatherData, liftData, content>>
\* the last step ended a load of date d and nothing has happened since
JustLoaded(d) ==
    /\ calls = EmptyBag
    /\ currentDate = d
    /\ event.op \in {"terrain", "weatherHistorical", "weatherLatest", "lift"}
Reload(on, d, data, again) == [on |-> on, date |-> d, data |-> data, again |-> again]
NoReload == Reload(FALSE, NullDate, <<>>, FALSE)
\* loadDate(d) is called: what the loader holds at that moment is recorded
Observe(d) == IF reload.on THEN Reload(TRUE, d, LoaderData, JustLoaded(d)) ELSE reload

(***************************************************************************)
(* loadDate                                                                *)
(***************************************************************************)
\* loadDate(date) up to its first await: the terrain fetch is issued (the
\* caller's step also sets currentDate)
StartLoadDate(bag, d, parent) ==
    bag (+) SetToBag({Call("loadDate", "terrain", d, NullDate, "none", "none", parent)})

\* loadWeatherData(date) up to its first await: which endpoint it fetches
WeatherFirstFetch(d) == IF d # NullDate /\ d # today THEN "hist" ELSE "latest"

\* Promise.all([loadWeatherData(date), loadLiftData()]) is entered
EnterAll(c) == Call("loadDate", "all", c.date, c.yday, WeatherFirstFetch(c.date), "fetch", c.parent)

\* renderOverview(), reading the four module-level data
renderOverview(terrain, yesterday, weather, lift) ==
    IF terrain.kind # "terrain"
    THEN Plain("overview", "No grooming data available for this date.", NullDate)
    ELSE View("overview", "", NullDate, terrain, yesterday, weather, lift)

\* mutation: the loadIndex that awaits the call is never resumed
Return_CallerWaits(c) == calls (-) SetToBag({c})

\* the call c returns; a loadIndex awaiting it returns with it
Return(c) ==
    IF c.parent = "loadIndex"
    THEN (calls (-) SetToBag({c})) (-) SetToBag({LoadIndexCall("loadDate")})
    ELSE IF c.parent = "refreshIndex"
    THEN (calls (-) SetToBag({c})) (-) SetToBag({RefreshIndexCall("loadDate")})
    ELSE calls (-) SetToBag({c})

\* loadMorningBrief() up to its first await, with window.debugSettings
\* .dailyBriefs = flag: whether it goes on to fetch brief/latest.json, and
\* what the widget's display is when it gets there or returns
BriefFetches(flag) == hasBriefWidget /\ flag /\ dismissed[resort] # today
BriefDisplayAfterStart(flag) ==
    IF ~hasBriefWidget THEN briefDisplay
    ELSE IF ~flag \/ dismissed[resort] = today THEN "none"
    ELSE briefDisplay

\* handleTouchEnd after await refreshData(): the toast, the indicator and
\* the two coordinates are reset
RefreshDone ==
    /\ toast' = "Updated!"
    /\ pullStartY' = 0
    /\ pullMoveY' = 0
    /\ UNCHANGED <<isPulling, scrollY, touch>>

\* loadDate returns to whoever awaits it: nobody, loadIndex (which calls
\* loadMorningBrief() without awaiting it and returns, to refreshData if that
\* awaits it) or refreshData (which awaits loadMorningBrief())
ReturnFromLoadDate(c) ==
    IF c.parent = "none"
    THEN /\ calls' = Return(c)
         /\ UNCHANGED <<touchVars, briefVars>>
    ELSE /\ briefDisplay' = BriefDisplayAfterStart(dailyBriefs)
         /\ UNCHANGED <<resort, hasBriefWidget, dailyBriefs, dismissed>>
         /\ calls' = IF BriefFetches(dailyBriefs)
                     THEN Return(c) (+) SetToBag({
                            BriefCall(IF c.parent = "refresh" THEN "refresh" ELSE "none")})
                     ELSE Return(c)
         /\ IF c.parent = "refreshIndex" \/ (c.parent = "refresh" /\ ~BriefFetches(dailyBriefs))
            THEN RefreshDone
            ELSE UNCHANGED touchVars

\* the terrain fetch settles
LoadDateTerrain(c, out) ==
    /\ BagIn(c, calls)
    /\ c.fn = "loadDate" /\ c.pc = "terrain"
    /\ out \in PageOutcomes
    /\ event' = Settled("terrain", out)
    /\ UNCHANGED besideLoader
    /\ IF out = Rejected \/ ~ResponseOk(out) \/ ~Parses(out)
       THEN \* catch: showError(`Failed to load data for ${date}: ...`)
            /\ content' = ErrorView("Failed to load data for", c.date)
            /\ ReturnFromLoadDate(c)
            /\ UNCHANGED <<terrainData, yesterdayData>>
       ELSE /\ terrainData' = IF out.body = "doc" THEN Terrain(c.date) ELSE OtherJson
            /\ IF c.date = UndefinedDate
               THEN \* toISOString() of an invalid Date throws a RangeError
                    /\ content' = ErrorView("Failed to load data for", c.date)
                    /\ ReturnFromLoadDate(c)
                    /\ UNCHANGED yesterdayData
               ELSE LET actualYesterday == ActualYesterday(c.date, zone) IN
                    IF ArrayIncludes(availableDates, actualYesterday)
                    THEN /\ calls' = (calls (-) SetToBag({c})) (+) SetToBag({
                                Call("loadDate", "yesterday", c.date, actualYesterday,
                                     "none", "none", c.parent)})
                         /\ UNCHANGED <<yesterdayData, content, touchVars, briefVars>>
                    ELSE /\ yesterdayData' = Null
                         /\ calls' = (calls (-) SetToBag({c})) (+) SetToBag({EnterAll(c)})
                         /\ UNCHANGED <<content, touchVars, briefVars>>
    /\ UNCHANGED <<indexDoc, zone, today, availableDates, currentDateIndex, currentDate,
                   weatherData, liftData, populated>>

\* what yesterdayData becomes when the fetch of yesterday's terrain settles
yesterdayResult(out, yday) ==
    IF out = Rejected THEN Null
    ELSE IF ~Parses(out) THEN Null
    ELSE IF out.body = "doc" THEN Terrain(yday)
    ELSE OtherJson

LoadDateYesterday(c, out) ==
    /\ BagIn(c, calls)
    /\ c.fn = "loadDate" /\ c.pc = "yesterday"
    /\ out \in PageOutcomes
    /\ event' = Settled("yesterday", out)
    /\ UNCHANGED besideLoader
    /\ UNCHANGED <<touchVars, briefVars>>
    /\ yesterdayData' = yesterdayResult(out, c.yday)
    /\ calls' = (calls (-) SetToBag({c})) (+) SetToBag({EnterAll(c)})
    /\ UNCHANGED <<indexDoc, zone, today, availableDates, currentDateIndex, currentDate,
                   terrainData, weatherData, liftData, content, populated>>

\* mutation: the overview is rendered from the lift data of the load before
FinishLoadDate_StaleLift(c, weather, lift) ==
    /\ content' = renderOverview(terrainData, yesterdayData, weather, liftData)
    /\ ReturnFromLoadDate(c)

\* Promise.all has settled: renderOverview(); updateNavigation(date); return
FinishLoadDate(c, weather, lift) ==
    /\ content' = renderOverview(terrainData, yesterdayData, weather, lift)
    /\ ReturnFromLoadDate(c)

\* mutation: the overview is rendered as soon as loadWeatherData has returned
AfterSettle_WeatherOnly(c, w, l, weather, lift) ==
    IF w = "done"
    THEN FinishLoadDate(c, weather, lift)
    ELSE /\ calls' = (calls (-) SetToBag({c})) (+) SetToBag({
                Call("loadDate", "all", c.date, c.yday, w, l, c.parent)})
         /\ UNCHANGED <<content, touchVars, briefVars>>

\* the rest of the step in which a sub-load of Promise.all settled, leaving
\* positions w and l and the data weather and lift
AfterSettle(c, w, l, weather, lift) ==
    IF w = "done" /\ l = "done"
    THEN FinishLoadDate(c, weather, lift)
    ELSE /\ calls' = (calls (-) SetToBag({c})) (+) SetToBag({
                Call("loadDate", "all", c.date, c.yday, w, l, c.parent)})
         /\ UNCHANGED <<content, touchVars, briefVars>>

(***************************************************************************)
(* loadWeatherData, loadLiftData                                           *)
(***************************************************************************)
\* the historical-by-date fetch settles
LoadWeatherHistorical(c, out) ==
    /\ BagIn(c, calls)
    /\ c.fn = "loadDate" /\ c.pc = "all" /\ c.w = "hist"
    /\ out \in PageOutcomes
    /\ event' = Settled("weatherHistorical", out)
    /\ UNCHANGED besideLoader
    /\ IF out = Rejected
       THEN /\ weatherData' = NoWeather
            /\ AfterSettle(c, "done", c.l, weatherData', liftData)
       ELSE IF ~ResponseOk(out)
       THEN \* fall back to the latest endpoint
            /\ calls' = (calls (-) SetToBag({c})) (+) SetToBag({
                    Call("loadDate", "all", c.date, c.yday, "latest", c.l, c.parent)})
            /\ UNCHANGED <<weatherData, content, touchVars, briefVars>>
       ELSE /\ weatherData' = IF ~Parses(out) THEN NoWeather
                              ELSE IF out.body = "doc" THEN Weather("weather", c.date, TRUE)
                              ELSE Weather("other", NullDate, TRUE)
            /\ AfterSettle(c, "done", c.l, weatherData', liftData)
    /\ UNCHANGED <<indexDoc, zone, today, availableDates, currentDateIndex, currentDate,
                   terrainData, yesterdayData, liftData, populated>>

\* the fetch of snow/latest.json settles
LoadWeatherLatest(c, out) ==
    /\ BagIn(c, calls)
    /\ c.fn = "loadDate" /\ c.pc = "all" /\ c.w = "latest"
    /\ out \in PageOutcomes
    /\ event' = Settled("weatherLatest", out)
    /\ UNCHANGED besideLoader
    /\ weatherData' = IF out = Rejected \/ ~ResponseOk(out) \/ ~Parses(out) THEN NoWeather
                      ELSE IF out.body = "doc" THEN Weather("weather", NullDate, FALSE)
                      ELSE Weather("other", NullDate, FALSE)
    /\ AfterSettle(c, "done", c.l, weatherData', liftData)
    /\ UNCHANGED <<indexDoc, zone, today, availableDates, currentDateIndex, currentDate,
                   terrainData, yesterdayData, liftData, populated>>

\* the fetch of lifts/index.json settles
LoadLiftData(c, out) ==
    /\ BagIn(c, calls)
    /\ c.fn = "loadDate" /\ c.pc = "all" /\ c.l = "fetch"
    /\ out \in PageOutcomes
    /\ event' = Settled("lift", out)
    /\ UNCHANGED besideLoader
    /\ liftData' = IF out = Rejected \/ ~ResponseOk(out) \/ ~Parses(out) THEN Null
                   ELSE IF out.body = "doc" THEN Json("lifts", NullDate)
                   ELSE OtherJson
    /\ AfterSettle(c, c.w, "done", weatherData, liftData')
    /\ UNCHANGED <<indexDoc, zone, today, availableDates, currentDateIndex, currentDate,
                   terrainData, yesterdayData, weatherData, populated>>

(***************************************************************************)
(* loadIndex                                                               *)
(***************************************************************************)
\* DOMContentLoaded: loadIndex() up to its first await
LoadIndex ==
    /\ content = InitialView
    /\ calls = EmptyBag
    /\ content' = Skeleton
    /\ calls' = calls (+) SetToBag({LoadIndexCall("index")})
    /\ event' = UserEvent("DOMContentLoaded", 0)
    /\ UNCHANGED besideLoader
    /\ UNCHANGED <<touchVars, briefVars>>
    /\ UNCHANGED <<indexDoc, zone, today, availableDates, currentDateIndex, currentDate,
                   terrainData, yesterdayData, weatherData, liftData, populated>>

\* the fetch of index.json settles, in the loadIndex() activation ic
LoadIndexFetched(ic, out) ==
    /\ BagIn(ic, calls)
    /\ ic.fn = "loadIndex" /\ ic.pc = "index"
    /\ out \in PageOutcomes
    /\ event' = Settled("index", out)
    /\ UNCHANGED besideLoad
    /\ UNCHANGED briefVars
    /\ LET returns == \* loadIndex returns, to refreshData if that awaits it
                /\ calls' = calls (-) SetToBag({ic})
                /\ IF ic.parent = "refresh" THEN RefreshDone ELSE UNCHANGED touchVars
       IN
       IF out = Rejected \/ ~Parses(out)
       THEN /\ content' = ErrorView("Failed to load data index", NullDate)
            /\ returns
            /\ UNCHANGED <<availableDates, currentDateIndex, currentDate, populated, reload>>
       ELSE LET index == IF out.body = "doc" THEN indexDoc ELSE IndexDoc("noResorts", <<>>) IN
            IF HasFiles(index)
            THEN /\ availableDates' = Reverse(Sort(MapStripJson(index.files)))
                 /\ currentDateIndex' = 0
                 /\ populated' = TRUE
                 /\ currentDate' = At(availableDates', 0)
                 /\ calls' = StartLoadDate(
                        (calls (-) SetToBag({ic}))
                            (+) SetToBag({Call("loadIndex", "loadDate", NullDate, NullDate,
                                               "none", "none", ic.parent)}),
                        At(availableDates', 0),
                        IF ic.parent = "refresh" THEN "refreshIndex" ELSE "loadIndex")
                 /\ reload' = Observe(At(availableDates', 0))
                 /\ UNCHANGED <<content, touchVars>>
            ELSE /\ content' = ErrorView("No data available for this resort.", NullDate)
                 /\ returns
                 /\ UNCHANGED <<availableDates, currentDateIndex, currentDate, populated, reload>>
    /\ UNCHANGED <<indexDoc, zone, today, terrainData, yesterdayData, weatherData, liftData>>

(***************************************************************************)
(* Navigation                                                              *)
(***************************************************************************)
\* mutation: the direction is added instead of subtracted
navigateDate_WrongSign(direction) ==
    /\ LoadsInFlight < MaxLoads
    /\ event' = UserEvent("navigateDate", direction)
    /\ UNCHANGED besideLoad
    /\ UNCHANGED <<touchVars, briefVars>>
    /\ LET newIndex == currentDateIndex + direction IN
        IF newIndex >= 0 /\ newIndex < Len(availableDates)
        THEN /\ currentDateIndex' = newIndex
             /\ currentDate' = At(availableDates, newIndex)
             /\ calls' = StartLoadDate(calls, At(availableDates, newIndex), "none")
             /\ reload' = Observe(At(availableDates, newIndex))
        ELSE UNCHANGED <<currentDateIndex, currentDate, calls, reload>>
    /\ UNCHANGED <<indexDoc, zone, today, availableDates, terrainData, yesterdayData,
                   weatherData, liftData, content, populated>>

navigateDate(direction) ==
    /\ LoadsInFlight < MaxLoads
    /\ event' = UserEvent("navigateDate", direction)
    /\ UNCHANGED besideLoad
    /\ UNCHANGED <<touchVars, briefVars>>
    /\ LET newIndex == currentDateIndex - direction IN
        IF newIndex >= 0 /\ newIndex < Len(availableDates)
        THEN /\ currentDateIndex' = newIndex
             /\ currentDate' = At(availableDates, newIndex)
             /\ calls' = StartLoadDate(calls, At(availableDates, newIndex), "none")
             /\ reload' = Observe(At(availableDates, newIndex))
        ELSE UNCHANGED <<currentDateIndex, currentDate, calls, reload>>
    /\ UNCHANGED <<indexDoc, zone, today, availableDates, terrainData, yesterdayData,
                   weatherData, liftData, content, populated>>

\* mutation: the picked date is loaded but the cursor stays where it was
selectDate_KeepsIndex(selectedDate) ==
    /\ LoadsInFlight < MaxLoads
    /\ event' = UserEvent("selectDate", selectedDate)
    /\ UNCHANGED besideLoad
    /\ UNCHANGED <<touchVars, briefVars>>
    /\ LET index == IndexOf(availableDates, selectedDate) IN
        IF index # 0 - 1
        THEN /\ currentDate' = At(availableDates, index)
             /\ calls' = StartLoadDate(calls, At(availableDates, index), "none")
             /\ reload' = Observe(At(availableDates, index))
             /\ UNCHANGED currentDateIndex
        ELSE UNCHANGED <<currentDateIndex, currentDate, calls, reload>>
    /\ UNCHANGED <<indexDoc, zone, today, availableDates, terrainData, yesterdayData,
                   weatherData, liftData, content, populated>>

selectDate(selectedDate) ==
    /\ LoadsInFlight < MaxLoads
    /\ event' = UserEvent("selectDate", selectedDate)
    /\ UNCHANGED besideLoad
    /\ UNCHANGED <<touchVars, briefVars>>
    /\ LET index == IndexOf(availableDates, selectedDate) IN
        IF index # 0 - 1
        THEN /\ currentDateIndex' = index
             /\ currentDate' = At(availableDates, index)
             /\ calls' = StartLoadDate(calls, At(availableDates, index), "none")
             /\ reload' = Observe(At(availableDates, index))
        ELSE UNCHANGED <<currentDateIndex, currentDate, calls, reload>>
    /\ UNCHANGED <<indexDoc, zone, today, availableDates, terrainData, yesterdayData,
                   weatherData, liftData, content, populated>>

\* the fetches of the calls in flight settle, in any order
FetchSettles ==
    \/ \E ic \in BagToSet(calls), out \in PageOutcomes : LoadIndexFetched(ic, out)
    \/ \E c \in BagToSet(calls), out \in PageOutcomes : LoadDateTerrain(c, out)
    \/ \E c \in BagToSet(calls), out \in PageOutcomes : LoadDateYesterday(c, out)
    \/ \E c \in BagToSet(calls), out \in PageOutcomes : LoadWeatherHistorical(c, out)
    \/ \E c \in BagToSet(calls), out \in PageOutcomes : LoadWeatherLatest(c, out)
    \/ \E c \in BagToSet(calls), out \in PageOutcomes : LoadLiftData(c, out)

\* the dates the date picker can hold: those of the documents and one more
PickerDates == 1..(MaxDay + 1)

\* the user operates the navigation at any time
LoaderNext ==
    \/ LoadIndex
    \/ FetchSettles
    \/ \E direction \in {0 - 1, 1} : navigateDate(direction)
    \/ \E d \in PickerDates : selectDate(d)

\* the user operates the navigation only while no load is in flight
Quiet == calls = EmptyBag
SequentialNext ==
    \/ LoadIndex
    \/ FetchSettles
    \/ \E direction \in {0 - 1, 1} : Quiet /\ navigateDate(direction)
    \/ \E d \in PickerDates : Quiet /\ selectDate(d)

(***************************************************************************)
(* Overview widgets: groomed highlights and lift status                    *)
(***************************************************************************)
\* Array.prototype.slice(from, to)
Slice(a, from, to) ==
    SubSeq(a, from + 1, IF to < Len(a) THEN to ELSE Len(a))

\* a trail of a terrain document (the areas flattened, in document order)
Trail(id, groomed) == [Id |-> id, IsGroomed |-> groomed]
\* the terrain documents of n trails
TrailLists(n) == { [i \in 1..n |-> Trail(i, g[i])] : g \in [1..n -> BOOLEAN] }

\* yesterdayData: null, a terrain snapshot, or a parsed body without
\* GroomingAreas
Snapshot(kind, trails) == [kind |-> kind, trails |-> trails]
NoSnapshot == Snapshot("null", <<>>)
OtherSnapshot == Snapshot("other", <<>>)
Truthy(snapshot) == snapshot.kind # "null"

\* getGroomedTrailsData() over terrainData and yesterdayData
getGroomedTrailsData(trails, yesterday) ==
    LET yesterdayGroomed ==
            IF Truthy(yesterday) /\ yesterday.kind = "terrain"
            THEN { yesterday.trails[i].Id :
                        i \in { k \in 1..Len(yesterday.trails) : yesterday.trails[k].IsGroomed } }
            ELSE {}
        IsGroomed(t) == t.IsGroomed
        IsNew(t) == t.Id \notin yesterdayGroomed
        groomedTrails == SelectSeq(trails, IsGroomed)
    IN [groomedTrails |-> groomedTrails,
        newlyGroomed |-> SelectSeq(groomedTrails, IsNew),
        yesterdayGroomed |-> yesterdayGroomed]

\* what a widget shows: nothing, a placeholder, or rows
Widget(kind, showingNew, rows) == [kind |-> kind, showingNew |-> showingNew, rows |-> rows]
NoWidget == Widget("none", FALSE, <<>>)
NotRendered == Widget("pending", FALSE, <<>>)

\* mutation: the slice keeps four trails
renderGroomedHighlightsWidget_FourTrails(groomedTrails, newlyGroomed, yesterdayGroomed, yesterday) ==
    LET trailsToShow == IF Len(newlyGroomed) > 0 THEN Slice(newlyGroomed, 0, 4)
                        ELSE Slice(groomedTrails, 0, 4)
    IN Widget("highlights", Len(newlyGroomed) > 0,
              [i \in 1..Len(trailsToShow) |->
                    [Id |-> trailsToShow[i].Id,
                     badgeNew |-> trailsToShow[i].Id \notin yesterdayGroomed /\ Truthy(yesterday)]])

renderGroomedHighlightsWidget(groomedTrails, newlyGroomed, yesterdayGroomed, yesterday) ==
    LET trailsToShow == IF Len(newlyGroomed) > 0 THEN Slice(newlyGroomed, 0, 3)
                        ELSE Slice(groomedTrails, 0, 3)
    IN Widget("highlights", Len(newlyGroomed) > 0,
              [i \in 1..Len(trailsToShow) |->
                    [Id |-> trailsToShow[i].Id,
                     badgeNew |-> trailsToShow[i].Id \notin yesterdayGroomed /\ Truthy(yesterday)]])

\* a lift of a lift document; NoWait is a missing waitMinutes
NoWait == 0 - 1
Lift(id, status, waitMinutes) == [id |-> id, status |-> status, waitMinutes |-> waitMinutes]
LiftStatuses == {"Open", "Closed"}
WaitValues == {NoWait, 5, 10}
\* the lift documents of n lifts
LiftLists(n) ==
    { [i \in 1..n |-> Lift(i, st[i], w[i])] :
            st \in [1..n -> LiftStatuses], w \in [1..n -> WaitValues] }

\* "HH:MM" and a wall clock reading
Clock(h, m) == [hh |-> h, mm |-> m]
\* split(':').map(Number), then hour * 60 + minute
MinuteOfDay(c) == c.hh * 60 + c.mm
Hours(open, close) == [declared |-> TRUE, open |-> open, close |-> close]
NoHours == [declared |-> FALSE, open |-> Clock(0, 0), close |-> Clock(0, 0)]
LiftDoc(lifts, operatingHours, timezone) ==
    [lifts |-> lifts, operatingHours |-> operatingHours, timezone |-> timezone]

\* mutation: the closing minute still counts as open
checkOperatingHours_CloseInclusive(lift, resortTime) ==
    IF ~lift.operatingHours.declared \/ ~lift.timezone THEN TRUE
    ELSE LET currentTime == MinuteOfDay(resortTime)
             openTime == MinuteOfDay(lift.operatingHours.open)
             closeTime == MinuteOfDay(lift.operatingHours.close)
         IN ~(currentTime < openTime \/ currentTime > closeTime)

\* checkOperatingHours().isOpen, given the wall clock in the resort's timezone
checkOperatingHours(lift, resortTime) ==
    IF ~lift.operatingHours.declared \/ ~lift.timezone THEN TRUE
    ELSE LET currentTime == MinuteOfDay(resortTime)
             openTime == MinuteOfDay(lift.operatingHours.open)
             closeTime == MinuteOfDay(lift.operatingHours.close)
         IN ~(currentTime < openTime \/ currentTime >= closeTime)

\* l.waitMinutes || 0
WaitOrZero(l) == IF l.waitMinutes = NoWait THEN 0 ELSE l.waitMinutes

\* sort((a, b) => (b.waitMinutes || 0) - (a.waitMinutes || 0)): stable,
\* longest wait first
RECURSIVE InsertByWait(_, _)
InsertByWait(x, sorted) ==
    IF sorted = <<>> THEN <<x>>
    ELSE IF WaitOrZero(Head(sorted)) > WaitOrZero(x)
    THEN <<Head(sorted)>> \o InsertByWait(x, Tail(sorted))
    ELSE <<x>> \o sorted

RECURSIVE SortByWait(_)
SortByWait(a) == IF a = <<>> THEN <<>> ELSE InsertByWait(Head(a), SortByWait(Tail(a)))

renderLiftStatusWidget(lift, resortTime) ==
    IF ~checkOperatingHours(lift, resortTime)
    THEN Widget("closed", FALSE, <<>>)
    ELSE LET IsOpen(l) == l.status = "Open"
             sortedLifts == Slice(SortByWait(SelectSeq(lift.lifts, IsOpen)), 0, 3)
         IN IF Len(sortedLifts) = 0 THEN NoWidget ELSE Widget("lifts", FALSE, sortedLifts)

\* the data a render reads
Scene(kind, trails, yesterday, lift, resortTime) ==
    [kind |-> kind, trails |-> trails, yesterday |-> yesterday, lift |-> lift,
     resortTime |-> resortTime]
NoScene == Scene("none", <<>>, NoSnapshot, LiftDoc(<<>>, NoHours, FALSE), Clock(0, 0))

\* the yesterdays a terrain document of n trails is compared with: none, a
\* body without GroomingAreas, an empty one, and every one over the same
\* trails
Yesterdays(n) ==
    {NoSnapshot, OtherSnapshot, Snapshot("terrain", <<>>)}
        \cup { Snapshot("terrain", yt) : yt \in TrailLists(n) }

OPEN_AT == Clock(9, 0)
CLOSE_AT == Clock(16, 0)
ResortTimes == { Clock(8, 59), Clock(9, 0), Clock(15, 59), Clock(16, 0) }
\* what a lift document declares and the wall clock it is read at: no
\* hours; hours but no timezone; both, at readings around the opening and
\* the closing time
HoursCases ==
    { <<NoHours, TRUE, Clock(0, 0)>>, <<Hours(OPEN_AT, CLOSE_AT), FALSE, Clock(0, 0)>> }
        \cup { <<Hours(OPEN_AT, CLOSE_AT), TRUE, t>> : t \in ResortTimes }

TerrainScene(t, y) == Scene("terrain", t, y, NoScene.lift, NoScene.resortTime)
LiftScene(ls, h) == Scene("lifts", <<>>, NoSnapshot, LiftDoc(ls, h[1], h[2]), h[3])

WidgetInit ==
    /\ widgetOut = NotRendered
    /\ \E kind \in {"terrain", "lifts"} :
        IF kind = "terrain"
        THEN \E n \in 0..MaxTrails : \E t \in TrailLists(n), y \in Yesterdays(n) :
                widgetIn = TerrainScene(t, y)
        ELSE \E n \in 0..MaxLifts : \E ls \in LiftLists(n), h \in HoursCases :
                widgetIn = LiftScene(ls, h)

WidgetsAtRest ==
    /\ widgetIn = NoScene
    /\ widgetOut = NotRendered

\* renderOverview: the groomed highlights
RenderHighlights ==
    /\ widgetIn.kind = "terrain"
    /\ widgetOut = NotRendered
    /\ LET data == getGroomedTrailsData(widgetIn.trails, widgetIn.yesterday) IN
        widgetOut' = IF Len(data.groomedTrails) > 0
                     THEN renderGroomedHighlightsWidget(data.groomedTrails, data.newlyGroomed,
                                                        data.yesterdayGroomed, widgetIn.yesterday)
                     ELSE NoWidget
    /\ UNCHANGED <<widgetIn, swVars, loaderVars, lifeVars, touchVars, briefVars, reloadVars>>

\* renderOverview: the lift status
RenderLifts ==
    /\ widgetIn.kind = "lifts"
    /\ widgetOut = NotRendered
    /\ widgetOut' = IF Len(widgetIn.lift.lifts) > 0
                    THEN renderLiftStatusWidget(widgetIn.lift, widgetIn.resortTime)
                    ELSE NoWidget
    /\ UNCHANGED <<widgetIn, swVars, loaderVars, lifeVars, touchVars, briefVars, reloadVars>>

WidgetNext ==
    \/ RenderHighlights
    \/ RenderLifts


(***************************************************************************)
(* Service worker life cycle: install and activate                         *)
(***************************************************************************)
STATIC_ASSETS ==
    { "/ski-run-scraper/data/", "/ski-run-scraper/data/index.html",
      "/ski-run-scraper/data/styles.css", "/ski-run-scraper/data/resort.js",
      "/ski-run-scraper/data/pwa.js", "/ski-run-scraper/data/debug.js",
      "/ski-run-scraper/data/trail.js", "/ski-run-scraper/data/lift.js",
      "/ski-run-scraper/data/icons/icon-192.png", "/ski-run-scraper/data/icons/icon-512.png" }

\* namespaces left behind by earlier versions of the worker
StaleNames == { "ski-static-v1", "ski-data-v1" }

\* how the server answers the manifest: every asset ok, but for a few that
\* all answer non-2xx or all make the fetch reject
AssetAnswers ==
    { [a \in STATIC_ASSETS |-> IF a \in failing THEN how ELSE "ok"] :
        failing \in { f \in SUBSET STATIC_ASSETS : Cardinality(f) <= MaxFailing },
        how \in {"non2xx", "rejected"} }

Job(kind, name) == [kind |-> kind, name |-> name]
DeleteJobs == { j \in jobs : j.kind = "delete" }

LifeInit ==
    /\ worker = "parsed"
    /\ skipWaitingFlag = FALSE
    /\ namespaces \in (SUBSET StaleNames) \cup { StaleNames \cup CacheNames }
    /\ precached = {}
    /\ assetFetch \in AssetAnswers
    /\ jobs = {}
    /\ claimed = FALSE

\* the worker activated, both current namespaces in place
LifeAtRest ==
    /\ worker = "activated"
    /\ skipWaitingFlag = TRUE
    /\ namespaces = CacheNames
    /\ precached = {}
    /\ assetFetch = [a \in STATIC_ASSETS |-> "ok"]
    /\ jobs = {}
    /\ claimed = TRUE

besideLife == <<swVars, loaderVars, widgetVars, touchVars, briefVars, reloadVars>>

\* the install listener: waitUntil(caches.open(...).then(...)); skipWaiting()
InstallEvent ==
    /\ worker = "parsed"
    /\ worker' = "installing"
    /\ jobs' = jobs \cup {Job("open", STATIC_CACHE)}
    /\ skipWaitingFlag' = TRUE
    /\ UNCHANGED <<namespaces, precached, assetFetch, claimed>>
    /\ UNCHANGED besideLife

\* caches.open(STATIC_CACHE) resolves, creating the namespace if need be;
\* cache.addAll(STATIC_ASSETS.map(...)) is issued
CachesOpened ==
    /\ Job("open", STATIC_CACHE) \in jobs
    /\ namespaces' = namespaces \cup {STATIC_CACHE}
    /\ jobs' = (jobs \ {Job("open", STATIC_CACHE)}) \cup {Job("addAll", STATIC_CACHE)}
    /\ UNCHANGED <<worker, skipWaitingFlag, precached, assetFetch, claimed>>
    /\ UNCHANGED besideLife

\* cache.addAll: every response is stored if all are ok, else it rejects and
\* stores none
addAll(stored, answers) ==
    IF \A a \in STATIC_ASSETS : answers[a] = "ok" THEN stored \cup STATIC_ASSETS ELSE stored

\* cache.addAll settles; its rejection is caught, so the promise handed to
\* waitUntil resolves and the install completes
AddAllSettles ==
    /\ Job("addAll", STATIC_CACHE) \in jobs
    /\ precached' = addAll(precached, assetFetch)
    /\ jobs' = jobs \ {Job("addAll", STATIC_CACHE)}
    /\ worker' = "installed"
    /\ UNCHANGED <<skipWaitingFlag, namespaces, assetFetch, claimed>>
    /\ UNCHANGED besideLife

\* the activate listener: waitUntil(caches.keys().then(...)); clients.claim()
ActivateEvent ==
    /\ worker = "installed"
    /\ skipWaitingFlag
    /\ worker' = "activating"
    /\ jobs' = jobs \cup {Job("keys", ""), Job("claim", "")}
    /\ UNCHANGED <<skipWaitingFlag, namespaces, precached, assetFetch, claimed>>
    /\ UNCHANGED besideLife

\* caches.keys() resolves: caches.delete is called for every name that is
\* neither STATIC_CACHE nor DATA_CACHE
KeysResolved ==
    /\ Job("keys", "") \in jobs
    /\ LET doomed == { name \in namespaces : name # STATIC_CACHE /\ name # DATA_CACHE } IN
        /\ jobs' = (jobs \ {Job("keys", "")}) \cup { Job("delete", name) : name \in doomed }
        /\ worker' = IF doomed = {} THEN "activated" ELSE worker
    /\ UNCHANGED <<skipWaitingFlag, namespaces, precached, assetFetch, claimed>>
    /\ UNCHANGED besideLife

\* one caches.delete(name) resolves; the last one ends the activation
DeleteSettles(name) ==
    /\ Job("delete", name) \in jobs
    /\ namespaces' = namespaces \ {name}
    /\ jobs' = jobs \ {Job("delete", name)}
    /\ worker' = IF DeleteJobs = {Job("delete", name)} THEN "activated" ELSE worker
    /\ UNCHANGED <<skipWaitingFlag, precached, assetFetch, claimed>>
    /\ UNCHANGED besideLife

\* clients.claim(), called outside waitUntil, takes effect
ClaimTakesEffect ==
    /\ Job("claim", "") \in jobs
    /\ claimed' = TRUE
    /\ jobs' = jobs \ {Job("claim", "")}
    /\ UNCHANGED <<worker, skipWaitingFlag, namespaces, precached, assetFetch>>
    /\ UNCHANGED besideLife

LifeNext ==
    \/ InstallEvent
    \/ CachesOpened
    \/ AddAllSettles
    \/ ActivateEvent
    \/ KeysResolved
    \/ \E name \in StaleNames : DeleteSettles(name)
    \/ ClaimTakesEffect


(***************************************************************************)
(* Pull to refresh                                                         *)
(***************************************************************************)
\* pageY of a touch point, and window.scrollY
TouchYs == {100, 180, 190}
ScrollYs == {0, 50}
PULL_THRESHOLD == 80

\* the finger on the screen: where it went down, where it is, and whether
\* the page was scrolled to the top when it went down
Finger(startY, y, fromTop) == [down |-> TRUE, startY |-> startY, y |-> y, fromTop |-> fromTop]
NoTouch == [down |-> FALSE, startY |-> 0, y |-> 0, fromTop |-> FALSE]

\* everything of the page but the loader's calls and content, the gesture
\* and the brief
pageData == <<indexDoc, zone, today, availableDates, currentDateIndex, terrainData,
              yesterdayData, weatherData, liftData, populated>>

\* the listeners are installed by init(), on DOMContentLoaded
handleTouchStart(y) ==
    /\ content # InitialView
    /\ ~touch.down
    /\ touch' = Finger(y, y, scrollY = 0)
    /\ IF scrollY = 0
       THEN pullStartY' = y /\ isPulling' = TRUE
       ELSE UNCHANGED <<pullStartY, isPulling>>
    /\ event' = UserEvent("touchstart", 0)
    /\ UNCHANGED <<pullMoveY, scrollY, toast>>
    /\ UNCHANGED <<pageData, currentDate, content, calls, briefVars, besideLoader>>

handleTouchMove(y) ==
    /\ touch.down
    /\ touch' = [touch EXCEPT !.y = y]
    /\ IF isPulling THEN pullMoveY' = y ELSE UNCHANGED pullMoveY
    /\ event' = UserEvent("touchmove", 0)
    /\ UNCHANGED <<pullStartY, isPulling, scrollY, toast>>
    /\ UNCHANGED <<pageData, currentDate, content, calls, briefVars, besideLoader>>

\* window.refreshData() up to its first await
refreshData ==
    IF currentDate # NullDate /\ currentDate # UndefinedDate
    THEN /\ currentDate' = currentDate
         /\ calls' = StartLoadDate(calls, currentDate, "refresh")
         /\ reload' = Observe(currentDate)
         /\ UNCHANGED content
    ELSE /\ content' = Skeleton
         /\ calls' = calls (+) SetToBag({RefreshIndexCall("index")})
         /\ UNCHANGED <<currentDate, reload>>

\* handleTouchEnd up to its await, or to its end when nothing is awaited
handleTouchEnd ==
    /\ touch.down
    /\ touch' = NoTouch
    /\ event' = UserEvent("touchend", 0)
    /\ IF ~isPulling
       THEN UNCHANGED <<pullStartY, pullMoveY, isPulling, currentDate, content, calls, reload>>
       ELSE LET pullDistance == pullMoveY - pullStartY IN
            /\ isPulling' = FALSE
            /\ IF pullDistance > PULL_THRESHOLD
               THEN /\ LoadsInFlight < MaxLoads
                    /\ refreshData
                    /\ UNCHANGED <<pullStartY, pullMoveY>>
               ELSE /\ pullStartY' = 0
                    /\ pullMoveY' = 0
                    /\ UNCHANGED <<currentDate, content, calls, reload>>
    /\ UNCHANGED <<scrollY, toast>>
    /\ UNCHANGED <<pageData, briefVars, besideLoad>>

\* the page is scrolled (no handler of the page runs)
Scroll(to) ==
    /\ to # scrollY
    /\ scrollY' = to
    /\ UNCHANGED event
    /\ UNCHANGED <<pullStartY, pullMoveY, isPulling, touch, toast>>
    /\ UNCHANGED <<pageData, currentDate, content, calls, briefVars, besideLoader>>

(***************************************************************************)
(* The morning brief                                                       *)
(***************************************************************************)
\* the fetch of brief/latest.json settles
BriefFetched(c, out) ==
    /\ BagIn(c, calls)
    /\ c.fn = "loadMorningBrief"
    /\ out \in PageOutcomes
    /\ event' = Settled("brief", out)
    /\ briefDisplay' = IF out = Rejected \/ ~ResponseOk(out) \/ ~Parses(out)
                       THEN "none" ELSE "block"
    /\ calls' = calls (-) SetToBag({c})
    /\ IF c.parent = "refresh" THEN RefreshDone ELSE UNCHANGED touchVars
    /\ UNCHANGED <<resort, hasBriefWidget, dailyBriefs, dismissed>>
    /\ UNCHANGED <<pageData, currentDate, content, besideLoader>>

\* the dismiss button of the shown widget
dismissBrief ==
    /\ hasBriefWidget
    /\ briefDisplay = "block"
    /\ briefDisplay' = "none"
    /\ dismissed' = [dismissed EXCEPT ![resort] = today]
    /\ toast' = "Brief dismissed for today"
    /\ event' = UserEvent("dismissBrief", 0)
    /\ UNCHANGED <<resort, hasBriefWidget, dailyBriefs>>
    /\ UNCHANGED <<pullStartY, pullMoveY, isPulling, scrollY, touch>>
    /\ UNCHANGED <<pageData, currentDate, content, calls, besideLoader>>

\* updateSetting('dailyBriefs', value) and the debugSettingsChanged listener
updateSetting(value) ==
    /\ content # InitialView
    /\ value # dailyBriefs
    /\ value => LoadsInFlight < MaxLoads
    /\ dailyBriefs' = value
    /\ event' = UserEvent("dailyBriefs", IF value THEN 1 ELSE 0)
    /\ IF value
       THEN /\ briefDisplay' = BriefDisplayAfterStart(value)
            /\ calls' = IF BriefFetches(value) THEN calls (+) SetToBag({BriefCall("none")})
                        ELSE calls
       ELSE /\ briefDisplay' = IF hasBriefWidget THEN "none" ELSE briefDisplay
            /\ UNCHANGED calls
    /\ UNCHANGED <<resort, hasBriefWidget, dismissed>>
    /\ UNCHANGED <<pageData, currentDate, content, touchVars, besideLoader>>

\* midnight passes: getTodayDate() returns the next day
NextDay ==
    /\ today <= MaxDay
    /\ today' = today + 1
    /\ event' = UserEvent("nextDay", 0)
    /\ UNCHANGED <<indexDoc, zone, availableDates, currentDateIndex, terrainData,
                   yesterdayData, weatherData, liftData, populated>>
    /\ UNCHANGED <<currentDate, content, calls, touchVars, briefVars, besideLoader>>

\* the idle page is left for the page of resort r (r = resort: a reload);
\* localStorage (the dismissals, the debug settings) is kept
OpenPage(r) ==
    /\ calls = EmptyBag
    /\ ~touch.down
    /\ content # InitialView
    /\ resort' = r
    /\ briefDisplay' = "none"
    /\ UNCHANGED <<hasBriefWidget, dailyBriefs, dismissed>>
    /\ availableDates' = <<>> /\ currentDateIndex' = 0 /\ currentDate' = NullDate
    /\ terrainData' = Null /\ yesterdayData' = Null /\ weatherData' = NoWeather
    /\ liftData' = Null /\ content' = InitialView /\ populated' = FALSE
    /\ pullStartY' = 0 /\ pullMoveY' = 0 /\ isPulling' = FALSE
    /\ scrollY' = 0 /\ touch' = NoTouch /\ toast' = "none"
    /\ event' = UserEvent("openPage", 0)
    /\ UNCHANGED <<indexDoc, zone, today, calls, besideLoader>>

\* how the fetches of a refresh settle
RefreshOutcomes == { Rejected, Outcome(200, "doc") }

\* the resort page under the pull-to-refresh gesture: the index fetch fails
\* or succeeds, the fetches behind it succeed
TouchNext ==
    \/ LoadIndex
    \/ \E ic \in BagToSet(calls), out \in RefreshOutcomes : LoadIndexFetched(ic, out)
    \/ \E c \in BagToSet(calls) : LoadDateTerrain(c, Outcome(200, "doc"))
    \/ \E c \in BagToSet(calls) : LoadWeatherLatest(c, Outcome(200, "doc"))
    \/ \E c \in BagToSet(calls) : LoadLiftData(c, Outcome(200, "doc"))
    \/ \E c \in BagToSet(calls) : BriefFetched(c, Outcome(200, "doc"))
    \/ \E y \in TouchYs : handleTouchStart(y)
    \/ \E y \in TouchYs : handleTouchMove(y)
    \/ handleTouchEnd
    \/ \E to \in ScrollYs : Scroll(to)

\* the resort page and its brief: the loads (their fetches succeed, the
\* fetch of the brief fails or succeeds), one full pull, the dismiss button,
\* the debug flag, midnight, and leaving for another page
BriefNext ==
    \/ LoadIndex
    \/ \E ic \in BagToSet(calls) : LoadIndexFetched(ic, Outcome(200, "doc"))
    \/ \E c \in BagToSet(calls) : LoadDateTerrain(c, Outcome(200, "doc"))
    \/ \E c \in BagToSet(calls) : LoadWeatherHistorical(c, Outcome(200, "doc"))
    \/ \E c \in BagToSet(calls) : LoadWeatherLatest(c, Outcome(200, "doc"))
    \/ \E c \in BagToSet(calls) : LoadLiftData(c, Outcome(200, "doc"))
    \/ \E c \in BagToSet(calls), out \in RefreshOutcomes : BriefFetched(c, out)
    \/ handleTouchStart(100)
    \/ handleTouchMove(190)
    \/ handleTouchEnd
    \/ dismissBrief
    \/ \E value \in BOOLEAN : updateSetting(value)
    \/ NextDay
    \/ \E r \in Resorts : OpenPage(r)


(***************************************************************************)
(* Specifications                                                          *)
(***************************************************************************)

\* the page before it has run anything
LoaderAtRest ==
    /\ indexDoc = IndexDoc("noResorts", <<>>) /\ zone = "utcOrBehind" /\ today = MaxDay
    /\ availableDates = <<>> /\ currentDateIndex = 0 /\ currentDate = NullDate
    /\ terrainData = Null /\ yesterdayData = Null /\ weatherData = NoWeather
    /\ liftData = Null /\ content = InitialView /\ calls = EmptyBag
    /\ populated = FALSE /\ event = NoEvent

\* nothing is recorded about repeated loads
ReloadOff == server = NoServer /\ reload = NoReload

\* the worker before any fetch event
SWAtRest ==
    /\ site = {} /\ online = TRUE /\ tasks = EmptyBag /\ reply = NoReply
    /\ refreshNet = Unobserved
    /\ cache = [name \in CacheNames |-> [u \in Urls |-> NoResponse]]

\* no finger on the screen, no gesture under way
TouchAtRest ==
    /\ pullStartY = 0 /\ pullMoveY = 0 /\ isPulling = FALSE
    /\ scrollY = 0 /\ touch = NoTouch /\ toast = "none"

\* a page without the brief widget
BriefAtRest ==
    /\ resort = "vail" /\ hasBriefWidget = FALSE /\ dailyBriefs = TRUE
    /\ dismissed = [r \in Resorts |-> NullDate] /\ briefDisplay = "none"

\* the service worker, with the page at rest
InitSW ==
    /\ SWInit
    /\ LoaderAtRest /\ WidgetsAtRest /\ LifeAtRest /\ TouchAtRest /\ BriefAtRest
    /\ ReloadOff
SpecSW == InitSW /\ [][SWNext]_vars

\* the worker's cache-first handling and its background refresh, the outcome
\* of each refresh fetch recorded, for one cache-first URL
InitUpdate ==
    /\ \E q \in Requests : Dispatch(q).strategy = "cacheFirst" /\ site = {q}
    /\ online = TRUE
    /\ cache = [name \in CacheNames |-> [u \in Urls |-> NoResponse]]
    /\ tasks = EmptyBag
    /\ reply = NoReply
    /\ refreshNet = NoResponse
    /\ LoaderAtRest /\ WidgetsAtRest /\ LifeAtRest /\ TouchAtRest /\ BriefAtRest
    /\ ReloadOff
UpdateNext ==
    \/ \E q \in Requests : FetchEvent(q)
    \/ \E t \in BagToSet(tasks) : CacheFirstMatch(t)
    \/ \E t \in BagToSet(tasks), out \in FetchOutcomes(TRUE) : CacheFirstFetch(t, out)
    \/ \E t \in BagToSet(tasks), out \in FetchOutcomes(TRUE) : UpdateCacheFetch(t, out)
    \/ GoOffline
    \/ GoOnline
SpecUpdate == InitUpdate /\ [][UpdateNext]_vars

\* the loader over every index document, one load at a time
InitLoader ==
    /\ LoaderInit
    /\ SWAtRest /\ WidgetsAtRest /\ LifeAtRest /\ TouchAtRest /\ BriefAtRest
    /\ ReloadOff
SpecLoader == InitLoader /\ [][SequentialNext]_vars

\* the same, where a fetch that is pending eventually settles
SpecFair == InitLoader /\ [][SequentialNext]_vars /\ WF_vars(FetchSettles)

\* the loader with overlapping loads, over one index document
OverlapInit ==
    /\ LoaderInit
    /\ indexDoc = IndexDoc("files", <<File(MaxDay - 1), File(MaxDay)>>)
    /\ zone = "utcOrBehind"
    /\ SWAtRest /\ WidgetsAtRest /\ LifeAtRest /\ TouchAtRest /\ BriefAtRest
    /\ ReloadOff
SpecOverlap == OverlapInit /\ [][LoaderNext]_vars

\* the resort page with the brief widget, over an index document of one day
InitTouch ==
    /\ LoaderInit
    /\ indexDoc = IndexDoc("files", <<File(MaxDay)>>)
    /\ zone = "utcOrBehind"
    /\ TouchAtRest
    /\ resort = "vail" /\ hasBriefWidget = TRUE /\ dailyBriefs = TRUE
    /\ dismissed = [r \in Resorts |-> NullDate] /\ briefDisplay = "none"
    /\ SWAtRest /\ WidgetsAtRest /\ LifeAtRest
    /\ ReloadOff
SpecTouch == InitTouch /\ [][TouchNext]_vars

\* the same page under one full pull, where the terrain fetch of a reload may
\* be rejected or answer 404
PullOutcomes == { Rejected, Outcome(200, "doc"), Outcome(404, "garbage") }
PullNext ==
    \/ LoadIndex
    \/ \E ic \in BagToSet(calls) : LoadIndexFetched(ic, Outcome(200, "doc"))
    \/ \E c \in BagToSet(calls), out \in PullOutcomes : LoadDateTerrain(c, out)
    \/ \E c \in BagToSet(calls) : LoadWeatherLatest(c, Outcome(200, "doc"))
    \/ \E c \in BagToSet(calls) : LoadLiftData(c, Outcome(200, "doc"))
    \/ \E c \in BagToSet(calls) : BriefFetched(c, Outcome(200, "doc"))
    \/ handleTouchStart(100)
    \/ handleTouchMove(190)
    \/ handleTouchEnd
SpecPull == InitTouch /\ [][PullNext]_vars

InitBrief ==
    /\ LoaderInit
    /\ indexDoc = IndexDoc("files", <<File(MaxDay)>>)
    /\ zone = "utcOrBehind"
    /\ TouchAtRest
    /\ resort = "vail" /\ hasBriefWidget = TRUE /\ dailyBriefs = TRUE
    /\ dismissed = [r \in Resorts |-> NullDate] /\ briefDisplay = "none"
    /\ SWAtRest /\ WidgetsAtRest /\ LifeAtRest
    /\ ReloadOff
SpecBrief == InitBrief /\ [][BriefNext]_vars

\* how a fixed server may answer terrain/<d>.json, snow/<d>.json, and
\* snow/latest.json or lifts/index.json
TerrainAnswers == { Rejected, Outcome(200, "doc"), Outcome(404, "other") }
WeatherAnswers == { Rejected, Outcome(200, "doc"), Outcome(404, "garbage") }
LatestAnswers == { Rejected, Outcome(200, "doc") }

\* the loader against a server whose answers are fixed, one load at a time
InitReload ==
    /\ LoaderInit
    /\ indexDoc = IndexDoc("files", <<File(MaxDay - 1), File(MaxDay)>>)
    /\ \E older \in TerrainAnswers, newest \in TerrainAnswers, hist \in WeatherAnswers,
          latest \in LatestAnswers, lift \in LatestAnswers :
            server = Server([d \in {MaxDay - 1, MaxDay} |->
                                    IF d = MaxDay THEN newest ELSE older],
                            [d \in Days |-> hist], latest, lift)
    /\ reload = Reload(TRUE, NullDate, <<>>, FALSE)
    /\ SWAtRest /\ WidgetsAtRest /\ LifeAtRest /\ TouchAtRest /\ BriefAtRest
ReloadNext ==
    \/ LoadIndex
    \/ \E ic \in BagToSet(calls) : LoadIndexFetched(ic, Outcome(200, "doc"))
    \/ \E c \in BagToSet(calls) : LoadDateTerrain(c, Answer(server.terrain, c.date))
    \/ \E c \in BagToSet(calls) : LoadDateYesterday(c, Answer(server.terrain, c.yday))
    \/ \E c \in BagToSet(calls) : LoadWeatherHistorical(c, Answer(server.hist, c.date))
    \/ \E c \in BagToSet(calls) : LoadWeatherLatest(c, server.latest)
    \/ \E c \in BagToSet(calls) : LoadLiftData(c, server.lift)
    \/ \E direction \in {0 - 1, 1} : Quiet /\ navigateDate(direction)
    \/ \E d \in PickerDates : Quiet /\ selectDate(d)
SpecReload == InitReload /\ [][ReloadNext]_vars

\* the overview widgets over every scene
InitWidgets ==
    /\ WidgetInit
    /\ SWAtRest /\ LoaderAtRest /\ LifeAtRest /\ TouchAtRest /\ BriefAtRest
    /\ ReloadOff
SpecWidgets == InitWidgets /\ [][WidgetNext]_vars

\* the worker from its first parse to the end of its activation
InitLife ==
    /\ LifeInit
    /\ SWAtRest /\ LoaderAtRest /\ WidgetsAtRest /\ TouchAtRest /\ BriefAtRest
    /\ ReloadOff
SpecLife == InitLife /\ [][LifeNext]_vars

(***************************************************************************)
(* Properties of the service worker                                        *)
(***************************************************************************)
\* the step in which the suspended call t runs on
Resumes(t) == CopiesIn(t, tasks') < CopiesIn(t, tasks)

IsSuccess(response) == response.body = "origin" /\ response.status \in 200..299
AcceptsHtml(q) == \E i \in 1..Len(q.accept) : q.accept[i] = "text/html"
IsHttp(q) == q.protocol \in {HTTP_PROTOCOL, HTTPS_PROTOCOL}

StaticSuffixes == {DOT_CSS, DOT_JS, DOT_PNG, DOT_ICO, DOT_SVG, DOT_WOFF2}
DataSuffixes == {DOT_JSON, DOT_NDJSON}
PageSuffixes == {DOT_HTML, SLASH}
HasSuffix(q, suffixes) == \E x \in suffixes : EndsWith(q.pathname, x)

\* C1: every entry held in the static or the data namespace is a network
\* response with a 2xx status, in every reachable state.
C1_OnlySuccessCached ==
    \A name \in CacheNames, u \in Urls :
        cache[name][u] # NoResponse => IsSuccess(cache[name][u])

\* a non-2xx answer came from the network for a URL whose 2xx entry is kept
C1_Witness ==
    /\ reply.via = "network"
    /\ reply.response.status = 404
    /\ \E name \in CacheNames : IsSuccess(Match(cache, name, reply.req))

\* C2: when the fetch of a network-first request fails, the answer is the
\* cache entry if there is one, else the offline page if the request accepts
\* text/html, else the synthetic 503; a network-first handler answers without
\* looking at the cache only with the response the network gave.
C2_NetworkFirstFailure ==
    [][\A t \in BagToSet(tasks) :
        /\ (t.pc = "nfMatch" /\ Resumes(t)) =>
              LET entry == cache[t.cacheName][Url(t.request)] IN
              /\ tasks' = Finish(t)
              /\ cache' = cache
              /\ reply'.req = t.request
              /\ reply'.response =
                    IF entry # NoResponse THEN entry
                    ELSE IF AcceptsHtml(t.request) THEN OfflineHtmlResponse
                    ELSE Offline503Response
        /\ (t.pc = "nfFetch" /\ Resumes(t)) =>
              \/ tasks' = Finish(t) /\ reply'.via = "network" /\ reply'.response.body = "origin"
              \/ tasks' = Resume(t, Task("nfMatch", t.request, t.cacheName, 1))
                    /\ reply' = reply
      ]_vars

\* a data request that accepts text/html was answered with the offline page
C2_Witness ==
    /\ reply.strategy = "networkFirst"
    /\ reply.net = Throw
    /\ reply.response = OfflineHtmlResponse
    /\ HasSuffix(reply.req, DataSuffixes)

\* C3: a cache-first request whose URL is cached is answered with the cached
\* response at the step that finds the entry, whether or not the network is
\* reachable, and that step starts one refresh fetch, which is the only fetch
\* made for the request.
C3_CacheHit ==
    [][\A t \in BagToSet(tasks) :
        /\ (t.pc = "cfMatch" /\ Resumes(t) /\ cache[t.cacheName][Url(t.request)] # NoResponse) =>
              /\ reply' = Reply(t.request, "cacheFirst", "cache",
                                cache[t.cacheName][Url(t.request)], NoResponse)
              /\ tasks' = Resume(t, Task("updFetch", t.request, t.cacheName, 1))
              /\ cache' = cache
        /\ (t.pc = "updFetch" /\ Resumes(t)) =>
              /\ t.fetches = 1
              /\ tasks' = Finish(t)
              /\ reply' = reply
      ]_vars

\* the network is down, the cached response was returned and the refresh of
\* that request is in flight
C3_Witness ==
    /\ ~online
    /\ reply.strategy = "cacheFirst"
    /\ reply.via = "cache"
    /\ IsSuccess(reply.response)
    /\ BagIn(Task("updFetch", reply.req, STATIC_CACHE, 1), tasks)

\* C4: a cache-first request with no entry goes to the network; a 2xx response
\* is stored under the request and returned, a non-2xx response is returned
\* and not stored, a failed fetch answers the synthetic 503 "Offline" and
\* leaves the cache as it was.
C4_CacheMiss ==
    [][\A t \in BagToSet(tasks) :
        /\ (t.pc = "cfMatch" /\ Resumes(t) /\ cache[t.cacheName][Url(t.request)] = NoResponse) =>
              /\ tasks' = Resume(t, Task("cfFetch", t.request, t.cacheName, 1))
              /\ cache' = cache
              /\ reply' = reply
        /\ (t.pc = "cfFetch" /\ Resumes(t)) =>
              /\ tasks' = Finish(t)
              /\ reply'.req = t.request
              /\ IF reply'.net = Throw
                 THEN /\ reply'.response = Offline503Response
                      /\ cache' = cache
                 ELSE /\ reply'.net.body = "origin"
                      /\ reply'.response = reply'.net
                      /\ IF reply'.net.status \in 200..299
                         THEN cache' = [cache EXCEPT ![t.cacheName][Url(t.request)] = reply'.net]
                         ELSE cache' = cache
      ]_vars

\* a 2xx response was fetched on a miss, returned and stored
C4_Witness ==
    /\ reply.strategy = "cacheFirst"
    /\ reply.via = "network"
    /\ IsSuccess(reply.response)
    /\ Match(cache, STATIC_CACHE, reply.req) = reply.response

\* C5 (as amended): a request that is not a GET, or does not use an http(s)
\* scheme, passes through: no handler runs for it, it gets no respondWith
\* answer, and a site that issues only such requests leaves the caches empty.
C5_PassThrough ==
    /\ \A t \in BagToSet(tasks) : t.request.method = "GET" /\ IsHttp(t.request)
    /\ (reply.via # "init" /\ (reply.req.method # "GET" \/ ~IsHttp(reply.req)))
            => reply.via = "passthrough"
    /\ (\A q \in site : q.method # "GET" \/ ~IsHttp(q))
            => /\ tasks = EmptyBag
               /\ \A name \in CacheNames, u \in Urls : cache[name][u] = NoResponse

\* a POST was left alone
C5_Witness ==
    /\ reply.via = "passthrough"
    /\ reply.req.method = "POST"

\* C5 as stated: cross-origin requests pass through as well.
C5_Original ==
    /\ \A t \in BagToSet(tasks) :
            t.request.method = "GET" /\ IsHttp(t.request) /\ t.request.origin = SELF_ORIGIN
    /\ (reply.via # "init" /\ (reply.req.method # "GET" \/ ~IsHttp(reply.req)
                                \/ reply.req.origin # SELF_ORIGIN))
            => reply.via = "passthrough"

\* the strategy and namespace the contract gives a path, none when the path
\* has none of the listed shapes
ClassOf(q) ==
    IF HasSuffix(q, StaticSuffixes) THEN [strategy |-> "cacheFirst", cacheName |-> STATIC_CACHE]
    ELSE IF HasSuffix(q, DataSuffixes) THEN [strategy |-> "networkFirst", cacheName |-> DATA_CACHE]
    ELSE IF HasSuffix(q, PageSuffixes) THEN [strategy |-> "networkFirst", cacheName |-> STATIC_CACHE]
    ELSE [strategy |-> "none", cacheName |-> "none"]

StrategyOf(t) == IF t.pc \in {"cfMatch", "cfFetch", "updFetch"} THEN "cacheFirst" ELSE "networkFirst"

\* C6 (as amended): a same-origin http(s) GET whose path has one of the listed
\* shapes is handled by the one strategy and namespace of its class, one
\* whose path has none of them is not intercepted, and no entry is stored in
\* a namespace other than the one of its URL's class.
C6_Classification ==
    /\ \A t \in BagToSet(tasks) :
            t.request.origin = SELF_ORIGIN =>
                /\ StrategyOf(t) = ClassOf(t.request).strategy
                /\ t.cacheName = ClassOf(t.request).cacheName
    /\ (reply.via # "init" /\ reply.req.origin = SELF_ORIGIN
            /\ reply.req.method = "GET" /\ IsHttp(reply.req))
            => /\ reply.strategy = ClassOf(reply.req).strategy
               /\ (reply.via = "passthrough") = (ClassOf(reply.req).strategy = "none")
    /\ \A name \in CacheNames, q \in Requests :
            cache[name][Url(q)] # NoResponse => name = ClassOf(q).cacheName

\* an .ndjson request was handled network-first and stored in the data namespace
C6_Witness ==
    /\ reply.strategy = "networkFirst"
    /\ EndsWith(reply.req.pathname, DOT_NDJSON)
    /\ Match(cache, DATA_CACHE, reply.req) = reply.response
    /\ Match(cache, STATIC_CACHE, reply.req) = NoResponse
    /\ IsSuccess(reply.response)

\* C6 as stated: every same-origin GET is intercepted.
C6_Original ==
    (reply.via # "init" /\ reply.req.origin = SELF_ORIGIN
        /\ reply.req.method = "GET" /\ IsHttp(reply.req))
        => reply.via # "passthrough"

\* C26: a background refresh whose fetch rejects or answers outside 2xx leaves
\* the cache as it was; however the refresh settles, it ends without touching
\* the answer the page got, and that answer, given at the cache hit that
\* started the refresh, is the entry the cache held.
C26_FailedRefresh ==
    [][\A t \in BagToSet(tasks) :
        /\ (t.pc = "updFetch" /\ Resumes(t)) =>
                /\ tasks' = Finish(t)
                /\ reply' = reply
                /\ ~IsSuccess(refreshNet') => cache' = cache
        /\ (t.pc = "cfMatch" /\ Resumes(t)
                /\ \E u \in BagToSet(tasks') : u.pc = "updFetch" /\ u.request = t.request
                /\ reply' # reply) =>
                /\ reply'.via = "cache"
                /\ reply'.response = Match(cache, t.cacheName, t.request)
                /\ IsSuccess(reply'.response)
    ]_vars

\* the refresh of a cached URL got a 404 and the entry that was served is kept
C26_Witness ==
    /\ refreshNet = NetResponse(404)
    /\ tasks = EmptyBag
    /\ reply.strategy = "cacheFirst" /\ reply.via = "cache"
    /\ \E name \in CacheNames : Match(cache, name, reply.req) = reply.response

\* C27: when the fetch of a network-first handler gives a response, the
\* handler ends there, without cache.match: the answer is that response as it
\* came, and a response outside 2xx leaves every cache entry as it was.
C27_NetworkFirstNon2xx ==
    [][\A t \in BagToSet(tasks) :
        (t.pc = "nfFetch" /\ Resumes(t) /\ tasks' = Finish(t)) =>
            /\ reply'.req = t.request
            /\ reply'.strategy = "networkFirst"
            /\ reply'.via = "network"
            /\ reply'.net # Throw
            /\ reply'.response = reply'.net
            /\ ~IsSuccess(reply'.net) => cache' = cache
    ]_vars

\* a network-first request was answered with the network's 404 although the
\* cache holds a 299 entry for it, which stays
C27_Witness ==
    /\ reply.strategy = "networkFirst"
    /\ reply.via = "network"
    /\ reply.response = NetResponse(404)
    /\ \E name \in CacheNames : Match(cache, name, reply.req) = NetResponse(299)

(***************************************************************************)
(* Properties of the loader and the navigation                             *)
(***************************************************************************)
\* the data and display a user operation or a degraded fetch must leave alone
LoadDateCalls(bag) == { c \in BagToSet(bag) : c.fn = "loadDate" }
Failed(out) == out = Rejected \/ out.status \notin 200..299 \/ out.body = "garbage"

\* C7: once loadIndex has populated availableDates the cursor is a position
\* of the list, 0 <= currentDateIndex < length, whatever the index document
\* lists (an empty file list included) and whatever navigation follows.
C7_CursorInRange ==
    populated => (0 <= currentDateIndex /\ currentDateIndex < Len(availableDates))

\* C8: navigateDate(-1) moves the cursor up by one and navigateDate(+1) down
\* by one, each starting the load of the date under the new cursor; when the
\* new index is outside [0, length) nothing changes and no load is started;
\* selectDate of a date that is not in availableDates changes nothing.
C8_Navigation ==
    [][/\ event'.op = "navigateDate" =>
            LET target == IF event'.arg = 0 - 1 THEN currentDateIndex + 1
                          ELSE currentDateIndex - 1 IN
            /\ event'.arg \in {0 - 1, 1}
            /\ IF 0 <= target /\ target < Len(availableDates)
               THEN /\ currentDateIndex' = target
                    /\ currentDate' = availableDates[target + 1]
                    /\ calls' = calls (+) SetToBag({
                            Call("loadDate", "terrain", availableDates[target + 1],
                                 NullDate, "none", "none", "none")})
               ELSE /\ currentDateIndex' = currentDateIndex
                    /\ currentDate' = currentDate
                    /\ calls' = calls
            /\ UNCHANGED <<availableDates, terrainData, yesterdayData, weatherData,
                           liftData, content>>
       /\ (event'.op = "selectDate"
                /\ \A i \in 1..Len(availableDates) : availableDates[i] # event'.arg) =>
            UNCHANGED <<availableDates, currentDateIndex, currentDate, calls, terrainData,
                        yesterdayData, weatherData, liftData, content>>
      ]_vars

\* "previous" was pressed on the oldest of several dates: the cursor stays on
\* the last position and no load is in flight
C8_Witness ==
    /\ event = UserEvent("navigateDate", 0 - 1)
    /\ Len(availableDates) >= 2
    /\ currentDateIndex = Len(availableDates) - 1
    /\ calls = EmptyBag
    /\ content.kind = "overview"

\* C9: in loadDate only the terrain fetch is fatal (rejected or non-2xx: the
\* error state, nothing rendered); a yesterday, weather or lift fetch that
\* fails by rejection, non-2xx status or unparsable body sets its own datum
\* to null, leaves the other data alone, and the load goes on to render the
\* overview.
C9_DegradedData ==
    [][/\ (event'.op = "terrain" /\ (event'.out = Rejected \/ event'.out.status \notin 200..299)) =>
            /\ content'.kind = "error"
            /\ LoadDateCalls(calls') \subseteq LoadDateCalls(calls)
       /\ (event'.op = "yesterday" /\ Failed(event'.out)) =>
            /\ yesterdayData' = Null
            /\ UNCHANGED <<terrainData, weatherData, liftData>>
            /\ (content' = content \/ content'.kind = "overview")
       /\ (event'.op = "weatherHistorical"
                /\ (event'.out = Rejected \/ event'.out.body = "garbage")
                /\ (event'.out = Rejected \/ event'.out.status \in 200..299)) =>
            /\ weatherData' = NoWeather
            /\ UNCHANGED <<terrainData, yesterdayData, liftData>>
            /\ (content' = content \/ content'.kind = "overview")
       /\ (event'.op = "weatherLatest" /\ Failed(event'.out)) =>
            /\ weatherData' = NoWeather
            /\ UNCHANGED <<terrainData, yesterdayData, liftData>>
            /\ (content' = content \/ content'.kind = "overview")
       /\ (event'.op = "lift" /\ Failed(event'.out)) =>
            /\ liftData' = Null
            /\ UNCHANGED <<terrainData, yesterdayData, weatherData>>
            /\ (content' = content \/ content'.kind = "overview")
       /\ (event'.op \in {"weatherHistorical", "weatherLatest", "lift"}
                /\ LoadDateCalls(calls') = {}) =>
            content'.kind = "overview"
      ]_vars

\* C10: loadIndex ends in the error state, with an error message in place of
\* the content and no terrain fetch issued, when the index fetch is rejected,
\* when the response is non-2xx, and when the document has no entry for the
\* resort (then with the "no data" message).
C10_IndexFailure ==
    [][event'.op = "index" =>
            /\ (event'.out = Rejected \/ event'.out.status \notin 200..299) =>
                    /\ content'.kind = "error"
                    /\ calls' = EmptyBag
            /\ (event'.out # Rejected /\ event'.out.body = "doc"
                    /\ indexDoc.shape \in {"noResorts", "noEntry"}) =>
                    /\ content' = ErrorView("No data available for this resort.", NullDate)
                    /\ calls' = EmptyBag
      ]_vars

\* the loadDate call whose suspended state the step consumed
Resumed(c) == c.fn = "loadDate" /\ CopiesIn(c, calls') < CopiesIn(c, calls)
Succeeded(out) == out # Rejected /\ out.status \in 200..299 /\ out.body # "garbage"

\* C11: in every timezone, once the terrain fetch of loadDate(d) has
\* succeeded, the terrain of the calendar day d-1 is fetched if and only if
\* d-1 is in availableDates; when it is absent no yesterday fetch is issued
\* and yesterdayData is null (so that no trail is marked NEW).
C11_CalendarYesterday ==
    [][(event'.op = "terrain" /\ Succeeded(event'.out)) =>
            \A c \in BagToSet(calls) : (Resumed(c) /\ c.date \in Days) =>
                IF \E i \in 1..Len(availableDates) : availableDates[i] = c.date - 1
                THEN \E n \in BagToSet(calls') :
                        n.fn = "loadDate" /\ n.pc = "yesterday" /\ n.yday = c.date - 1
                ELSE /\ \A n \in BagToSet(calls') : n.pc # "yesterday"
                     /\ yesterdayData' = Null
      ]_vars

\* C13: once loadIndex has populated availableDates the list is strictly
\* descending, hence without duplicates, whatever the order and the
\* repetitions of the file list of the index document.
C13_StrictlyDescending ==
    populated =>
        \A i, j \in 1..Len(availableDates) : i < j => availableDates[i] > availableDates[j]

\* C14: loadWeatherData tries the historical endpoint first exactly when the
\* date is not today; a historical attempt that is rejected or non-2xx is
\* followed by the fetch of the latest endpoint; when the load completes,
\* isHistorical is true only after a successful historical fetch and
\* weatherData is null only after a failed fetch of the latest endpoint.
C14_WeatherFallback ==
    [][/\ (event'.op \in {"terrain", "yesterday"}) =>
            \A n \in BagToSet(calls') : (n.fn = "loadDate" /\ n.pc = "all") =>
                (n.w = "hist" <=> n.date # today)
       /\ (event'.op = "weatherHistorical"
                /\ (event'.out = Rejected \/ event'.out.status \notin 200..299)) =>
            \E n \in BagToSet(calls') : n.fn = "loadDate" /\ n.pc = "all" /\ n.w = "latest"
       /\ (\/ event'.op = "weatherLatest"
           \/ /\ event'.op = "weatherHistorical"
              /\ \A n \in BagToSet(calls') : n.w # "latest") =>
            /\ weatherData'.isHistorical =>
                    (event'.op = "weatherHistorical" /\ Succeeded(event'.out))
            /\ weatherData' = NoWeather =>
                    (event'.op = "weatherLatest" /\ Failed(event'.out))
      ]_vars

\* C15: when no load is in flight, terrainData is the terrain of the current
\* date or holds no terrain, and yesterdayData is the terrain of the day
\* before the current date or holds none, whether the last load succeeded or
\* ended in the error state.
C15_NoStaleSnapshot ==
    (calls = EmptyBag /\ currentDate \in Days) =>
        /\ terrainData.kind = "terrain" => terrainData.date = currentDate
        /\ yesterdayData.kind = "terrain" => yesterdayData.date = currentDate - 1

\* the positions loadDate(c.date) is suspended at after a step that resumed c
After(c) ==
    { n \in LoadDateCalls(calls') :
        n.date = c.date /\ CopiesIn(n, calls') > CopiesIn(n, calls) }
BothIssued(n) == n.pc = "all" /\ n.w \in {"hist", "latest"} /\ n.l = "fetch"

\* C22: within one loadDate the fetch of yesterday's terrain, of the weather
\* and of the lifts is issued only by a step that follows a successful
\* terrain fetch, and none is issued when the terrain fetch fails; the
\* weather and the lift fetch are issued together, by the step that ends the
\* yesterday step; and the call renders the overview and returns only when
\* both loadWeatherData and loadLiftData have settled.
C22_FetchOrder ==
    [][/\ \A c \in LoadDateCalls(calls) : Resumed(c) =>
            /\ c.pc = "terrain" =>
                    IF Succeeded(event'.out)
                    THEN \A n \in After(c) : n.pc = "yesterday" \/ BothIssued(n)
                    ELSE After(c) = {} /\ content'.kind = "error"
            /\ c.pc = "yesterday" =>
                    /\ After(c) # {}
                    /\ \A n \in After(c) : BothIssued(n)
            /\ c.pc = "all" =>
                    /\ \A n \in After(c) : n.pc = "all" /\ (n.w # "done" \/ n.l # "done")
                    /\ (c.w # "done" /\ c.l # "done") => After(c) # {}
                    /\ After(c) = {} => content'.kind = "overview"
                    /\ After(c) # {} => content' = content
       /\ \A n \in LoadDateCalls(calls') :
            (n.pc # "terrain" /\ CopiesIn(n, calls') > CopiesIn(n, calls)) =>
                \E c \in LoadDateCalls(calls) :
                    /\ Resumed(c) /\ c.date = n.date
                    /\ c.pc = "terrain" => Succeeded(event'.out)
                    /\ n.pc = "yesterday" => c.pc = "terrain"
                    /\ n.pc = "all" => c.pc \in {"terrain", "yesterday", "all"}
      ]_vars

\* a load that fetched yesterday's terrain has rendered, the lift fetch having
\* settled after the weather fetch
C22_Witness ==
    /\ calls = EmptyBag
    /\ event.op = "lift"
    /\ content.kind = "overview"
    /\ content.yesterday.kind = "terrain"
    /\ content.weather # NoWeather

\* C21: when every load has finished and the overview is shown, the data and
\* the rendered overview are those of the date loaded last (currentDate),
\* whatever the order in which the fetches of overlapping loads settled:
\* terrainData and the terrain rendered are that date's, yesterdayData is
\* null or the terrain of the day before it, and a historical weatherData is
\* the one fetched for it.
C21_LastLoadWins ==
    (calls = EmptyBag /\ content.kind = "overview" /\ currentDate \in Days) =>
        /\ terrainData.kind = "terrain" => terrainData.date = currentDate
        /\ content.terrain.kind = "terrain" => content.terrain.date = currentDate
        /\ yesterdayData.kind = "terrain" => yesterdayData.date = currentDate - 1
        /\ content.yesterday.kind = "terrain" => content.yesterday.date = currentDate - 1
        /\ (weatherData.kind = "weather" /\ weatherData.isHistorical) =>
                weatherData.date = currentDate

\* C28: every renderOverview of a terrain document shows one date's data,
\* however the fetches of overlapping loads interleave: the yesterday rendered
\* is null or the terrain of the day before the terrain rendered, and a
\* historical weather rendered is that of the same date.
C28_ConsistentSnapshot ==
    [][\A c \in LoadDateCalls(calls) :
        (Resumed(c) /\ c.pc = "all" /\ After(c) = {}
                /\ content'.kind = "overview" /\ content'.terrain.kind = "terrain") =>
            /\ content'.yesterday.kind = "terrain" =>
                    content'.yesterday.date = content'.terrain.date - 1
            /\ (content'.weather.kind = "weather" /\ content'.weather.isHistorical) =>
                    content'.weather.date = content'.terrain.date
    ]_vars

C24_Idempotent ==
    [][\A c \in LoadDateCalls(calls) :
        (Resumed(c) /\ After(c) = {}
                /\ reload.on /\ reload.again /\ reload.date = c.date) =>
            /\ LoaderData' = reload.data
            /\ currentDate' = c.date
    ]_vars

\* a load that ended in the error state while the data of the other date
\* stayed has been repeated and has ended
C24_Witness ==
    /\ reload.on /\ reload.again
    /\ JustLoaded(reload.date)
    /\ content.kind = "error"
    /\ terrainData.kind = "terrain" /\ terrainData.date # currentDate

\* the state of the loader's state machine
Phase ==
    IF content = InitialView THEN "Idle"
    ELSE IF \E c \in BagToSet(calls) : c.fn = "loadIndex" /\ c.pc = "index"
        THEN "IndexLoading"
    ELSE IF LoadDateCalls(calls) # {} THEN "DateLoading"
    ELSE IF content.kind = "overview" THEN "Ready"
    ELSE IF content.kind = "error" THEN "Error"
    ELSE "Skeleton"
PhaseSteps ==
    { <<"Idle", "IndexLoading">>,
      <<"IndexLoading", "DateLoading">>, <<"IndexLoading", "Error">>,
      <<"DateLoading", "DateLoading">>, <<"DateLoading", "Ready">>,
      <<"DateLoading", "Error">>,
      <<"Ready", "DateLoading">>, <<"Error", "DateLoading">> }

\* C25: the loader moves only along Idle -> IndexLoading -> DateLoading ->
\* Ready, with Error entered from IndexLoading or DateLoading and a new date
\* load started from Ready or Error; and, a pending fetch eventually
\* settling, whenever a loadIndex or loadDate call is in flight the loader
\* eventually has none in flight and shows the overview or an error message,
\* so that the skeleton never stays.
C25_LoadsEnd ==
    /\ [][Phase' # Phase => <<Phase, Phase'>> \in PhaseSteps]_vars
    /\ (calls # EmptyBag) ~> (calls = EmptyBag /\ Phase \in {"Ready", "Error"})
    /\ (content = Skeleton) ~> (content.kind \in {"overview", "error"})

\* Ready after an index load whose date load fetched yesterday's terrain
C25_Witness ==
    /\ Phase = "Ready"
    /\ populated /\ currentDateIndex = 0
    /\ content.yesterday.kind = "terrain"
    /\ event.op \in {"weatherLatest", "weatherHistorical"}

(***************************************************************************)
(* Properties of the overview widgets                                      *)
(***************************************************************************)
\* positions of the trails groomed today, and the ids groomed yesterday
GroomedToday == { i \in 1..Len(widgetIn.trails) : widgetIn.trails[i].IsGroomed }
GroomedYesterday ==
    IF widgetIn.yesterday.kind = "terrain"
    THEN { widgetIn.yesterday.trails[i].Id :
                i \in { k \in 1..Len(widgetIn.yesterday.trails) :
                            widgetIn.yesterday.trails[k].IsGroomed } }
    ELSE {}
NewlyGroomedToday == { i \in GroomedToday : widgetIn.trails[i].Id \notin GroomedYesterday }
Min(a, b) == IF a < b THEN a ELSE b

\* C12: the groomed-highlights widget shows at most 3 trails: the first 3
\* newly-groomed trails (groomed today, id not groomed yesterday) when there is
\* at least one, otherwise the first 3 groomed trails, in document order; a
\* shown trail carries the NEW badge if and only if its id is absent from
\* yesterday's groomed set and yesterdayData is loaded (not null).
C12_HighlightsWidget ==
    (widgetIn.kind = "terrain" /\ widgetOut.kind = "highlights") =>
        LET pool == IF NewlyGroomedToday # {} THEN NewlyGroomedToday ELSE GroomedToday
            rows == widgetOut.rows
        IN /\ Len(rows) <= 3
           /\ Len(rows) = Min(3, Cardinality(pool))
           /\ \A k \in 1..Len(rows) :
                /\ \E i \in pool :
                    /\ widgetIn.trails[i].Id = rows[k].Id
                    /\ Cardinality({ j \in pool : j < i }) = k - 1
                /\ rows[k].badgeNew <=>
                        (rows[k].Id \notin GroomedYesterday /\ widgetIn.yesterday.kind # "null")

\* more than three trails are newly groomed against a loaded yesterday that
\* had groomed trails of its own; three rows are shown, with the badge
C12_Witness ==
    /\ widgetIn.kind = "terrain"
    /\ widgetIn.yesterday.kind = "terrain"
    /\ GroomedYesterday # {}
    /\ Cardinality(NewlyGroomedToday) > 3
    /\ Cardinality(GroomedToday) > Cardinality(NewlyGroomedToday)
    /\ widgetOut.kind = "highlights"
    /\ Len(widgetOut.rows) = 3
    /\ \A k \in 1..3 : widgetOut.rows[k].badgeNew

\* C23: once the highlights are rendered, a trail groomed today is in
\* newlyGroomed if and only if a yesterday snapshot is loaded and the trail's
\* id is not in yesterday's groomed set; with yesterdayData null newlyGroomed
\* is empty and the widget is not presented as showing new trails.
C23_NewlyGroomed ==
    (widgetIn.kind = "terrain" /\ widgetOut # NotRendered) =>
        LET data == getGroomedTrailsData(widgetIn.trails, widgetIn.yesterday)
            InNewlyGroomed(id) ==
                \E k \in 1..Len(data.newlyGroomed) : data.newlyGroomed[k].Id = id
        IN /\ \A i \in GroomedToday :
                InNewlyGroomed(widgetIn.trails[i].Id) <=>
                    /\ Truthy(widgetIn.yesterday)
                    /\ widgetIn.trails[i].Id \notin GroomedYesterday
           /\ ~Truthy(widgetIn.yesterday) =>
                /\ data.newlyGroomed = <<>>
                /\ ~widgetOut.showingNew

\* positions of the lifts whose status is Open, and what a render is judged on
OpenLifts == { i \in 1..Len(widgetIn.lift.lifts) : widgetIn.lift.lifts[i].status = "Open" }
WaitKey(l) == IF l.waitMinutes = NoWait THEN 0 ELSE l.waitMinutes
OutsideHours ==
    /\ widgetIn.lift.operatingHours.declared
    /\ widgetIn.lift.timezone
    /\ LET t == widgetIn.resortTime.hh * 60 + widgetIn.resortTime.mm
           open == widgetIn.lift.operatingHours.open.hh * 60 + widgetIn.lift.operatingHours.open.mm
           close == widgetIn.lift.operatingHours.close.hh * 60 + widgetIn.lift.operatingHours.close.mm
       IN t < open \/ t >= close
LiftsRendered == widgetIn.kind = "lifts" /\ widgetOut # NotRendered

\* the rows are exactly the Open lifts, longest wait first, cut to three
TopThreeOpenLifts ==
    LET rows == widgetOut.rows IN
    /\ widgetOut.kind \in {"lifts", "none"}
    /\ widgetOut.kind = "none" <=> OpenLifts = {}
    /\ Len(rows) = Min(3, Cardinality(OpenLifts))
    /\ \A k \in 1..Len(rows) : \E i \in OpenLifts : rows[k] = widgetIn.lift.lifts[i]
    /\ \A k, m \in 1..Len(rows) : k # m => rows[k].id # rows[m].id
    /\ \A k \in 1..(Len(rows) - 1) : WaitKey(rows[k]) >= WaitKey(rows[k + 1])
    /\ \A i \in OpenLifts :
            (\A k \in 1..Len(rows) : rows[k].id # widgetIn.lift.lifts[i].id)
                => \A k \in 1..Len(rows) : WaitKey(widgetIn.lift.lifts[i]) <= WaitKey(rows[k])

\* C19 (as amended): when the lift document lists at least one lift: if it
\* declares operatingHours and timezone and the resort's local time t is
\* outside [open, close), i.e. t < open or t >= close, the lift widget is the
\* closed placeholder with no lift row; otherwise it shows exactly the Open
\* lifts sorted by wait time descending (a missing wait counts as 0), cut to
\* the first 3, and nothing when no lift is Open. When the document lists no
\* lift, no lift widget is rendered, whatever the hours.
C19_LiftWidget ==
    LiftsRendered =>
        IF Len(widgetIn.lift.lifts) = 0 THEN widgetOut = NoWidget
        ELSE IF OutsideHours THEN widgetOut.kind = "closed" /\ widgetOut.rows = <<>>
        ELSE TopThreeOpenLifts

\* at the closing minute, with more than three lifts open, the placeholder
\* is shown
C19_Witness ==
    /\ LiftsRendered
    /\ OutsideHours
    /\ widgetIn.resortTime = widgetIn.lift.operatingHours.close
    /\ Cardinality(OpenLifts) > 3
    /\ widgetOut.kind = "closed"

\* C19 as first stated: outside the declared hours the lift widget is the
\* closed placeholder, otherwise the top three Open lifts, whatever the
\* document lists.
C19_Original ==
    LiftsRendered =>
        IF OutsideHours THEN widgetOut.kind = "closed" /\ widgetOut.rows = <<>>
        ELSE TopThreeOpenLifts

(***************************************************************************)
(* Properties of the service worker's life cycle                           *)
(***************************************************************************)
\* C16: activation deletes every namespace that is not one of the two
\* current ones and only then takes control of the open pages: at the step
\* in which clients.claim takes effect no stale namespace remains; once the
\* activation has ended none remains; activation never deletes a current
\* namespace.
C16_DeleteThenClaim ==
    [][/\ (~claimed /\ claimed') => namespaces' \subseteq CacheNames
       /\ worker' = "activated" => namespaces' \subseteq CacheNames
       /\ \A name \in CacheNames : name \in namespaces => name \in namespaces'
      ]_vars

\* C17: whatever subset of the manifest fails to be fetched, the install
\* completes, the assets that were fetched successfully are in the static
\* namespace, and the worker goes on to activation without waiting.
C17_PartialPrecache ==
    worker \in {"installed", "activating", "activated"} =>
        /\ precached = { a \in STATIC_ASSETS : assetFetch[a] = "ok" }
        /\ skipWaitingFlag

(***************************************************************************)
(* Properties of the pull-to-refresh gesture and of the morning brief      *)
(***************************************************************************)
\* the step in which the finger is lifted, and whether it starts a reload
TouchEnds == touch.down /\ ~touch'.down
StartsReload == BagCardinality(calls') > BagCardinality(calls)

\* C18: whatever touches came before and whether or not an earlier refresh
\* is still awaiting its reload, the touchend of a touch starts a reload if
\* and only if the touch began with the page scrolled to the top and the
\* finger is more than 80 units below where that touch began; a shorter drag
\* from the top resets the indicator's coordinates and starts no reload.
C18_PullToRefresh ==
    [][TouchEnds =>
        LET pulled == touch.fromTop /\ touch.y - touch.startY > PULL_THRESHOLD IN
        /\ StartsReload <=> pulled
        /\ (touch.fromTop /\ ~pulled) => (pullStartY' = 0 /\ pullMoveY' = 0)
      ]_vars

\* a loadMorningBrief() call whose fetch is in flight, and the step in which
\* the fetch of one settles
BriefLoads(bag) == { c \in BagToSet(bag) : c.fn = "loadMorningBrief" }
BriefSettles == \E c \in BriefLoads(calls) : CopiesIn(c, calls') < CopiesIn(c, calls)

\* C20: the brief is shown only if the dailyBriefs flag is on and the brief
\* of this resort has not been dismissed for the current day. dismissBrief
\* hides the widget and records the current day for this resort alone, so
\* that the widget stays hidden for the rest of that day whatever load
\* follows, and a dismissal for one resort never hides the brief of another;
\* a brief whose fetch succeeds while the flag is on and no dismissal is
\* recorded for the day (the day after a dismissal included) is shown.
C20_BriefDismissal ==
    [][/\ briefDisplay' = "block" => (dailyBriefs' /\ dismissed'[resort'] # today')
       /\ dismissed' # dismissed =>
            /\ briefDisplay' = "none"
            /\ dismissed' = [dismissed EXCEPT ![resort] = today]
       /\ (BriefSettles /\ Succeeded(event'.out) /\ dailyBriefs /\ dismissed[resort] # today)
            => briefDisplay' = "block"
      ]_vars

\* the calls a refreshData() activation awaits, and the step in which one of
\* them returns to it for the last time
Awaited(bag) == { c \in BagToSet(bag) : c.parent = "refresh" }
RefreshReturns ==
    /\ \E c \in Awaited(calls) : CopiesIn(c, calls') < CopiesIn(c, calls)
    /\ \A n \in Awaited(calls') : CopiesIn(n, calls') <= CopiesIn(n, calls)

\* C29: when the reload awaited by a pull-to-refresh has ended, the
\* notification is 'Updated!' if the reload rendered the overview and
\* 'Update failed' if it ended in the error view.
C29_RefreshOutcome ==
    [][RefreshReturns =>
            toast' = IF content'.kind = "overview" THEN "Updated!" ELSE "Update failed"
    ]_vars

====
